---- MODULE Spec2Model ----
(***************************************************************************)
(* Form fields of the catalogue search (app/lib/fields.py), the date-range *)
(* cross validation of the search forms (app/search/forms.py) and the      *)
(* request handling of the search view (app/search/views.py).              *)
(*                                                                         *)
(* Representation of Python values                                         *)
(*   - a string whose characters the code inspects (CharField input, the   *)
(*     year/month/day parts of a date) is the sequence of its characters,  *)
(*     <<"2","0","2","3">> for "2023" and << >> for "";                    *)
(*   - a string the code only compares, joins or embeds in a message (a    *)
(*     choice value, a label, an error text) is a TLA+ string; a character *)
(*     outside ASCII, which a TLA+ string cannot hold, is written as the   *)
(*     escape Python's ascii() gives it: "Title (A\\u2013Z)" is the text   *)
(*     Title (A\u2013Z) and stands for the label with the en dash U+2013,  *)
(*     so that two different texts are never one string;                   *)
(*   - a list is a sequence, a (value, label) tuple is a pair;             *)
(*   - the dict self._error is a set of records: {} for the empty dict and *)
(*     {[text |-> m]} for {"text": m};                                     *)
(*   - a cleaned value is a tagged record: None, a str, a list, a date or  *)
(*     the dict of date parts;                                             *)
(*   - an operation that may raise returns Ok(v), Raise(message) for a     *)
(*     ValidationError, or ValueError for an uncaught ValueError.          *)
(***************************************************************************)
EXTENDS Integers, Sequences, FiniteSets, TLC

VARIABLES
    form,        \* the form class that was instantiated for this run
    page,        \* request.GET.getlist("page"), each value as its characters
    fields,      \* form.fields: field name -> field object
    non_field_errors, \* form.non_field_errors: list of {"text": m}
    pc,          \* position of the caller (unit-test driver or view.get)
    returned,    \* field name -> << >> or <<b>>: result of its last is_valid()
    fresh,       \* fields not modified since their last is_valid() returned
    api,         \* the search API exchange of the request
    uc_last,     \* field name -> << >> or <<call>>: its last update_choices call
    rendered     \* field name -> << >> or <<items>>: what the last items access
                 \* returned, << >> again once the field is changed

vars == <<form, page, fields, non_field_errors, pc, returned, fresh, api, uc_last, rendered>>

----------------------------------------------------------------------------
(* Python values *)

None == [type |-> "None"]
Str(s) == [type |-> "str", v |-> s]
List(l) == [type |-> "list", v |-> l]
Date(y, m, d) == [type |-> "date", year |-> y, month |-> m, day |-> d]
Dict(d) == [type |-> "dict", v |-> d]

Ok(v) == [raised |-> FALSE, value |-> v]
Raise(m) == [raised |-> TRUE, exc |-> "ValidationError", message |-> m]
\* an exception that is_valid() does not catch
ValueError == [raised |-> TRUE, exc |-> "ValueError", message |-> ""]

Range(s) == {s[i] : i \in DOMAIN s}

\* ", ".join(seq) for a list of strings
RECURSIVE Join(_, _)
Join(seq, sep) ==
    IF seq = << >> THEN ""
    ELSE IF Len(seq) = 1 THEN seq[1]
    ELSE seq[1] \o sep \o Join(Tail(seq), sep)

Pad2(n) == IF n < 10 THEN "0" \o ToString(n) ELSE ToString(n)
Pad3(n) == IF n < 10 THEN "00" \o ToString(n)
           ELSE IF n < 100 THEN "0" \o ToString(n) ELSE ToString(n)

\* f"{n:,}": decimal digits in groups of three separated by commas
RECURSIVE ThousandsGrouped(_)
ThousandsGrouped(n) ==
    IF n < 1000 THEN ToString(n)
    ELSE ThousandsGrouped(n \div 1000) \o "," \o Pad3(n % 1000)

----------------------------------------------------------------------------
(* int(str) on a string given as its characters *)

DigitVal == [c \in {"0", "1", "2", "3", "4", "5", "6", "7", "8", "9"} |->
                CASE c = "0" -> 0 [] c = "1" -> 1 [] c = "2" -> 2 [] c = "3" -> 3
                  [] c = "4" -> 4 [] c = "5" -> 5 [] c = "6" -> 6 [] c = "7" -> 7
                  [] c = "8" -> 8 [] c = "9" -> 9]

IsDigit(c) == c \in DOMAIN DigitVal

\* the ASCII characters int() skips around an integer literal: the blank and
\* the controls \t, \n, \x0b, \f, \r (\x0b is written as the character itself)
INT_WHITESPACE == {" ", "\t", "\n", "\r", "\f", ""}

\* the ASCII characters str.strip() removes: those, and the separators
\* \x1c to \x1f (written as the characters themselves); the whitespace
\* beyond ASCII is not among the characters a string of the model can hold
WHITESPACE == INT_WHITESPACE \cup {"", "", "", ""}

RECURSIVE LStripChars(_, _)
LStripChars(s, chars) ==
    IF s # << >> /\ Head(s) \in chars THEN LStripChars(Tail(s), chars) ELSE s

RECURSIVE RStripChars(_, _)
RStripChars(s, chars) ==
    IF s # << >> /\ s[Len(s)] \in chars
    THEN RStripChars(SubSeq(s, 1, Len(s) - 1), chars) ELSE s

\* str.lstrip(), str.rstrip()
LStrip(s) == LStripChars(s, WHITESPACE)
RStrip(s) == RStripChars(s, WHITESPACE)

\* str.strip()
Strip(s) == RStrip(LStrip(s))

\* the value of a digit string; the underscores int() allows are skipped
RECURSIVE DigitsToInt(_)
DigitsToInt(s) ==
    IF s = << >> THEN 0
    ELSE IF s[Len(s)] = "_" THEN DigitsToInt(SubSeq(s, 1, Len(s) - 1))
    ELSE 10 * DigitsToInt(SubSeq(s, 1, Len(s) - 1)) + DigitVal[s[Len(s)]]

\* the digit part of an integer literal: digits, with single underscores
\* between two digits
IsDigitString(s) ==
    /\ s # << >>
    /\ IsDigit(s[1]) /\ IsDigit(s[Len(s)])
    /\ \A i \in DOMAIN s : IsDigit(s[i]) \/ s[i] = "_"
    /\ \A i \in 1..(Len(s) - 1) : ~(s[i] = "_" /\ s[i + 1] = "_")

\* int(s): surrounding whitespace and one leading sign are accepted, then a
\* digit string and nothing else; anything else is a ValueError
ParseInt(s) ==
    LET t == RStripChars(LStripChars(s, INT_WHITESPACE), INT_WHITESPACE)
        signed == t # << >> /\ Head(t) \in {"-", "+"}
        digits == IF signed THEN Tail(t) ELSE t
    IN  IF IsDigitString(digits)
        THEN [ok |-> TRUE,
              n |-> IF signed /\ Head(t) = "-" THEN 0 - DigitsToInt(digits)
                    ELSE DigitsToInt(digits)]
        ELSE [ok |-> FALSE, n |-> 0]

----------------------------------------------------------------------------
(* datetime.date and calendar.monthrange *)

IsLeap(y) == (y % 4 = 0) /\ ((y % 100 # 0) \/ (y % 400 = 0))

\* calendar.monthrange(y, m)[1]
DaysInMonth(y, m) ==
    IF m = 2 THEN (IF IsLeap(y) THEN 29 ELSE 28)
    ELSE IF m \in {4, 6, 9, 11} THEN 30 ELSE 31

\* date(y, m, d) as it would be if February always had 28 days
IsRealDate_no_leap(y, m, d) ==
    /\ 1 <= y /\ y <= 9999
    /\ 1 <= m /\ m <= 12
    /\ 1 <= d /\ d <= (IF m = 2 THEN 28 ELSE DaysInMonth(y, m))

\* date(y, m, d) does not raise ValueError
IsRealDate(y, m, d) ==
    /\ 1 <= y /\ y <= 9999
    /\ 1 <= m /\ m <= 12
    /\ 1 <= d /\ d <= DaysInMonth(y, m)

\* d1 > d2 as it would be if equal dates compared as greater
DateGreater_or_equal(d1, d2) ==
    \/ d1.year > d2.year
    \/ d1.year = d2.year /\ d1.month > d2.month
    \/ d1.year = d2.year /\ d1.month = d2.month /\ d1.day >= d2.day

\* d1 > d2 on dates
DateGreater(d1, d2) ==
    \/ d1.year > d2.year
    \/ d1.year = d2.year /\ d1.month > d2.month
    \/ d1.year = d2.year /\ d1.month = d2.month /\ d1.day > d2.day

\* d.strftime("%d-%m-%Y"), for the four-digit years the model binds
Strftime(d) == Pad2(d.day) \o "-" \o Pad2(d.month) \o "-" \o ToString(d.year)

----------------------------------------------------------------------------
(* BaseField *)

\* BaseField.__init__
BaseField(kind, required) ==
    [kind |-> kind, required |-> required,
     _value |-> None, _cleaned |-> None, _error |-> {}, choices |-> None]

\* BaseField.bind: stores the bound value
BaseField_bind(f, value) == [f EXCEPT !._value = value]

\* "not value" for the bound value of the field: the empty string of a
\* ChoiceField, the empty character sequence of a CharField, the empty list
\* of a DynamicMultipleChoiceField
Falsy(f, value) == IF f.kind = "ChoiceField" THEN value = "" ELSE value = << >>

\* BaseField.validate
BaseField_validate(f, value) ==
    IF f.required /\ Falsy(f, value) THEN Raise("Value is required.") ELSE Ok(None)

\* add_error as it would be if setting an error also dropped the cleaned value
add_error_clearing(f, message) ==
    [f EXCEPT !._error = {[text |-> message]}, !._cleaned = None]

\* BaseField.add_error
add_error(f, message) == [f EXCEPT !._error = {[text |-> message]}]

\* BaseField.error
error(f) == f._error

\* cleaned as it would be if the accessor did not look at the error
cleaned_ignoring_error(f) == f._cleaned

\* BaseField.cleaned
cleaned(f) == IF f._error = {} THEN f._cleaned ELSE None

\* BaseField.value
value(f) == f._value

----------------------------------------------------------------------------
(* CharField *)

CharField(required) == BaseField("CharField", required)

\* CharField.bind / ChoiceField.bind: the last of the submitted values, "" when
\* nothing was submitted (empty is "" for a ChoiceField, << >> for a CharField)
LastOrEmpty(input, empty) == IF input = << >> THEN empty ELSE input[Len(input)]

CharField_bind(f, input) == BaseField_bind(f, LastOrEmpty(input, << >>))

\* CharField.clean
CharField_clean(f, v) ==
    LET r == BaseField_validate(f, v)
    IN  IF r.raised THEN r
        ELSE Ok(Str(IF v # << >> THEN Strip(v) ELSE << >>))

----------------------------------------------------------------------------
(* ChoiceField *)

ChoiceField(choices, required) ==
    [BaseField("ChoiceField", required) EXCEPT !.choices = choices]

ChoiceField_bind(f, input) == BaseField_bind(f, LastOrEmpty(input, ""))

ChoiceValues(choices) == [i \in DOMAIN choices |-> choices[i][1]]

\* validate as it would be without the required check
ChoiceField_validate_unrequired(f, v) ==
    IF v \notin Range(ChoiceValues(f.choices))
    THEN Raise("Enter a valid choice. ["
               \o (IF v # "" THEN v ELSE "Empty param value")
               \o "] is not one of the available choices. Valid choices are ["
               \o Join(ChoiceValues(f.choices), ", ") \o "]")
    ELSE Ok(None)

\* ChoiceField.validate
ChoiceField_validate(f, v) ==
    LET r == IF f.required THEN BaseField_validate(f, v) ELSE Ok(None)
        valid_choices == ChoiceValues(f.choices)
    IN  IF r.raised THEN r
        ELSE IF v \notin Range(valid_choices)
        THEN Raise("Enter a valid choice. ["
                   \o (IF v # "" THEN v ELSE "Empty param value")
                   \o "] is not one of the available choices. Valid choices are ["
                   \o Join(valid_choices, ", ") \o "]")
        ELSE Ok(None)

\* BaseField.clean as inherited by ChoiceField
ChoiceField_clean(f, v) ==
    LET r == ChoiceField_validate(f, v)
    IN  IF r.raised THEN r ELSE Ok(Str(v))

\* items as it would be if it wrote the checked key on every entry
ChoiceField_items_keyed(f) ==
    [i \in DOMAIN f.choices |->
        [text |-> f.choices[i][2], value |-> f.choices[i][1],
         checked |-> f.choices[i][1] = f._value]]

\* ChoiceField.items
ChoiceField_items(f) ==
    [i \in DOMAIN f.choices |->
        IF f.choices[i][1] = f._value
        THEN [text |-> f.choices[i][2], value |-> f.choices[i][1], checked |-> TRUE]
        ELSE [text |-> f.choices[i][2], value |-> f.choices[i][1]]]

----------------------------------------------------------------------------
(* DynamicMultipleChoiceField *)

\* DynamicMultipleChoiceField.__init__; validate_input_kw is << >> when the
\* keyword is not passed and <<b>> when validate_input=b is passed.
\* more_filter_options_available is the attribute views.process_api_result
\* assigns: << >> while the object has no such attribute, <<b>> once set
\* __init__ as it would be if an empty choices list did not coerce
\* validate_input to False
DynamicMultipleChoiceField_uncoerced(choices, required, validate_input_kw) ==
    LET validate_input ==
            IF validate_input_kw = << >> THEN choices # << >>
            ELSE validate_input_kw[1]
    IN  [kind |-> "DynamicMultipleChoiceField", required |-> required,
         _value |-> None, _cleaned |-> None, _error |-> {},
         validate_input_kw |-> validate_input_kw,
         validate_input |-> validate_input,
         more_filter_choices_available |-> FALSE,
         more_filter_options_available |-> << >>,
         choices |-> choices,
         configured_choices |-> choices,
         valid_choices |-> IF validate_input THEN ChoiceValues(choices) ELSE << >>,
         choices_updated |-> FALSE]

\* DynamicMultipleChoiceField.__init__; validate_input_kw is the validate_input
\* keyword as the caller gave it (<< >> when not given), kept on the record
DynamicMultipleChoiceField(choices, required, validate_input_kw) ==
    LET validate_default == choices # << >>
        validate_input ==
            IF choices # << >>
            THEN (IF validate_input_kw = << >> THEN validate_default
                  ELSE validate_input_kw[1])
            ELSE FALSE
    IN  [kind |-> "DynamicMultipleChoiceField", required |-> required,
         _value |-> None, _cleaned |-> None, _error |-> {},
         validate_input_kw |-> validate_input_kw,
         validate_input |-> validate_input,
         more_filter_choices_available |-> FALSE,
         more_filter_options_available |-> << >>,
         choices |-> choices,
         configured_choices |-> choices,
         valid_choices |-> IF validate_input THEN ChoiceValues(choices) ELSE << >>,
         choices_updated |-> FALSE]

\* BaseField.bind as inherited: the list of submitted values
DynamicMultipleChoiceField_bind(f, input) == BaseField_bind(f, input)

\* DynamicMultipleChoiceField._has_match_all
_has_match_all(v, search_in) == \A i \in DOMAIN v : v[i] \in Range(search_in)

\* validate as it would be if the message named the offending values only
DynamicMultipleChoiceField_validate_offending(f, v) ==
    IF f.required /\ v = << >> THEN Raise("Value is required.")
    ELSE IF f.validate_input /\ ~_has_match_all(v, f.valid_choices)
    THEN Raise("Enter a valid choice. Value(s) ["
               \o Join(SelectSeq(v, LAMBDA x : x \notin Range(f.valid_choices)), ", ")
               \o "] do not belong to the available choices. Valid choices are ["
               \o Join(f.valid_choices, ", ") \o "]")
    ELSE Ok(None)

\* validate as it would be if validate_input alone made a value required
DynamicMultipleChoiceField_validate_requiring(f, v) ==
    IF f.required \/ f.validate_input
    THEN IF v = << >> THEN Raise("Value is required.")
         ELSE IF f.validate_input /\ ~_has_match_all(v, f.valid_choices)
         THEN Raise("Enter a valid choice. Value(s) [" \o Join(v, ", ")
                    \o "] do not belong to the available choices. Valid choices are ["
                    \o Join(f.valid_choices, ", ") \o "]")
         ELSE Ok(None)
    ELSE Ok(None)

\* DynamicMultipleChoiceField.validate
DynamicMultipleChoiceField_validate(f, v) ==
    IF f.required \/ f.validate_input
    THEN LET r == BaseField_validate(f, v)
         IN  IF r.raised THEN r
             ELSE IF f.validate_input /\ ~_has_match_all(v, f.valid_choices)
             THEN Raise("Enter a valid choice. Value(s) [" \o Join(v, ", ")
                        \o "] do not belong to the available choices. Valid choices are ["
                        \o Join(f.valid_choices, ", ") \o "]")
             ELSE Ok(None)
    ELSE Ok(None)

\* BaseField.clean as inherited by DynamicMultipleChoiceField
DynamicMultipleChoiceField_clean(f, v) ==
    LET r == DynamicMultipleChoiceField_validate(f, v)
    IN  IF r.raised THEN r ELSE Ok(List(v))

\* DynamicMultipleChoiceField.configured_choice_labels: the dict built from
\* the configured pairs (a later pair of the same value wins)
HasConfiguredLabel(f, v) == v \in Range(ChoiceValues(f.configured_choices))

\* configured_choice_labels as it would be if it were read from the current
\* choices whenever they hold the value
configured_choice_labels_current(f, v) ==
    IF \E i \in DOMAIN f.choices : f.choices[i][1] = v
    THEN f.choices[CHOOSE i \in DOMAIN f.choices : f.choices[i][1] = v][2]
    ELSE f.configured_choices[CHOOSE i \in DOMAIN f.configured_choices :
                                    f.configured_choices[i][1] = v][2]

configured_choice_labels(f, v) ==
    LET idx == {i \in DOMAIN f.configured_choices : f.configured_choices[i][1] = v}
        last == CHOOSE i \in idx : \A j \in idx : j <= i
    IN  f.configured_choices[last][2]

\* the label base of update_choices / choice_label_from_api_data: the
\* configured label, the raw value on KeyError
LabelBase(f, v) == IF HasConfiguredLabel(f, v) THEN configured_choice_labels(f, v) ELSE v

\* DynamicMultipleChoiceField.choice_label_from_api_data
choice_label_from_api_data(f, data) ==
    LabelBase(f, data.value) \o " (" \o ThousandsGrouped(data.doc_count) \o ")"

\* the comprehension as it would be without its filter
MissingValues_unfiltered(selected_values, choice_vals_with_hits) == selected_values

\* [v for v in selected_values if v not in choice_vals_with_hits]
RECURSIVE MissingValues(_, _)
MissingValues(selected_values, choice_vals_with_hits) ==
    IF selected_values = << >> THEN << >>
    ELSE (IF Head(selected_values) \in choice_vals_with_hits THEN << >>
          ELSE <<Head(selected_values)>>)
         \o MissingValues(Tail(selected_values), choice_vals_with_hits)

\* the list of choices update_choices generates
NewChoices(f, choice_api_data, selected_values) ==
    LET with_hits == [i \in DOMAIN choice_api_data |->
                        <<choice_api_data[i].value,
                          choice_label_from_api_data(f, choice_api_data[i])>>]
        choice_vals_with_hits == {choice_api_data[i].value : i \in DOMAIN choice_api_data}
        missing == MissingValues(selected_values, choice_vals_with_hits)
    IN  with_hits \o [i \in DOMAIN missing |->
                        <<missing[i], LabelBase(f, missing[i]) \o " (0)">>]

\* update_choices as it would be if it extended the current list
update_choices_cumulative(f, choice_api_data, selected_values) ==
    [f EXCEPT !.choices = f.choices \o NewChoices(f, choice_api_data, selected_values),
              !.choices_updated = TRUE]

\* DynamicMultipleChoiceField.update_choices
update_choices(f, choice_api_data, selected_values) ==
    [f EXCEPT !.choices = NewChoices(f, choice_api_data, selected_values),
              !.choices_updated = TRUE]

\* the reconciliation as it would be if the lazy call passed no selected values
items_reconcile_dropping_selected(f) ==
    IF f._error # {}
    THEN (IF f.configured_choices # << >> THEN update_choices(f, << >>, << >>) ELSE f)
    ELSE (IF ~f.choices_updated THEN update_choices(f, << >>, << >>) ELSE f)

\* the reconciliation as it would be without the lazy call of the valid case
items_reconcile_no_lazy(f) ==
    IF f._error # {}
    THEN (IF f.configured_choices # << >> THEN update_choices(f, << >>, << >>) ELSE f)
    ELSE f

\* items as it would be if it reconciled on every access without error
items_reconcile_always(f) ==
    IF f._error # {}
    THEN (IF f.configured_choices # << >> THEN update_choices(f, << >>, << >>) ELSE f)
    ELSE update_choices(f, << >>, f._value)

\* the reconciliation DynamicMultipleChoiceField.items runs before it renders:
\* the field after the access
items_reconcile(f) ==
    IF f._error # {}
    THEN (IF f.configured_choices # << >> THEN update_choices(f, << >>, << >>) ELSE f)
    ELSE (IF ~f.choices_updated THEN update_choices(f, << >>, f._value) ELSE f)

\* DynamicMultipleChoiceField.items: the list the access returns
DynamicMultipleChoiceField_items(f) ==
    LET g == items_reconcile(f)
    IN  [i \in DOMAIN g.choices |->
            IF g.choices[i][1] \in Range(g._value)
            THEN [text |-> g.choices[i][2], value |-> g.choices[i][1], checked |-> TRUE]
            ELSE [text |-> g.choices[i][2], value |-> g.choices[i][1]]]

----------------------------------------------------------------------------
(* MultiPartDateField, BaseProgressiveDateField, FromDateField, ToDateField *)

\* MultiPartDateField.__init__ (kind names the class that is instantiated)
MultiPartDateField(kind, progressive, required) ==
    [kind |-> kind, required |-> required, progressive |-> progressive,
     _value |-> None, _cleaned |-> None, _error |-> {}, choices |-> None]

\* MultiPartDateField.bind: data gives, for each of the three keys
\* name-year, name-month, name-day, the list of values submitted for it;
\* QueryDict.get returns the last one, "" when there is none
MultiPartDateField_bind(f, data) ==
    BaseField_bind(f, [year |-> LastOrEmpty(data.year, << >>),
                       month |-> LastOrEmpty(data.month, << >>),
                       day |-> LastOrEmpty(data.day, << >>)])

\* key.capitalize()
Capitalize(key) == CASE key = "year" -> "Year" [] key = "month" -> "Month"
                     [] key = "day" -> "Day"

\* MultiPartDateField._validate_required
_validate_required(f, v) ==
    IF f.required
    THEN (IF f.progressive
          THEN (IF v.year = << >> THEN Raise("Year value is required.") ELSE Ok(None))
          ELSE (IF v.year = << >> \/ v.month = << >> \/ v.day = << >>
                THEN Raise("All date parts (day, month, year) are required.")
                ELSE Ok(None)))
    ELSE Ok(None)

\* MultiPartDateField._is_complete_date
_is_complete_date(v) ==
    \/ v.year # << >> /\ v.month # << >> /\ v.day # << >>
    \/ v.year = << >> /\ v.month = << >> /\ v.day = << >>

\* _validate_int: int(value[key]) gave p; a ValueError becomes a ValidationError
IntOrRaise(key, p) ==
    IF p.ok THEN Ok(p.n) ELSE Raise(Capitalize(key) \o " must be an integer.")

\* MultiPartDateField._validate_int
_validate_int(key, v) == IntOrRaise(key, ParseInt(v[key]))

\* the range check of _validate_year_only, _validate_month_only and
\* _validate_day_only on r, what _validate_int returned or raised
InRangeOrRaise(key, r, lo, hi) ==
    IF r.raised THEN r
    ELSE IF ~(lo <= r.value /\ r.value <= hi)
    THEN Raise(Capitalize(key) \o " must be between " \o ToString(lo)
               \o " and " \o ToString(hi) \o ".")
    ELSE r

\* the body shared by _validate_year_only, _validate_month_only and
\* _validate_day_only; Ok(0) stands for the None of an empty part
ValidatePart(key, v, lo, hi) ==
    IF v[key] # << >>
    THEN InRangeOrRaise(key, _validate_int(key, v), lo, hi)
    ELSE Ok(0)

_validate_year_only(key, v) == ValidatePart(key, v, 1, 9999)
_validate_month_only(key, v) == ValidatePart(key, v, 1, 12)
_validate_day_only(key, v) == ValidatePart(key, v, 1, 31)

\* MultiPartDateField._validate_full_date
_validate_full_date(year, month, day) ==
    IF IsRealDate(year, month, day) THEN Ok(None)
    ELSE Raise("Entered date must be a real date, for example Year 2017, Month 9, Day 23")

\* validate as it would be without the check of non-progressive completeness
ValidateSteps_lenient(f, v, req, year_int, month_int, day_int) ==
    IF req.raised THEN req
    ELSE IF year_int.raised THEN year_int
    ELSE IF month_int.raised THEN month_int
    ELSE IF day_int.raised THEN day_int
    ELSE IF year_int.value # 0 /\ month_int.value # 0 /\ day_int.value # 0
    THEN _validate_full_date(year_int.value, month_int.value, day_int.value)
    ELSE Ok(None)

\* validate as it would be if it reported the parts in the order day, month, year
ValidateSteps_day_first(f, v, req, year_int, month_int, day_int) ==
    IF req.raised THEN req
    ELSE IF ~f.progressive /\ ~_is_complete_date(v)
    THEN Raise("Either all or none of the date parts (day, month, year) must be provided.")
    ELSE IF day_int.raised THEN day_int
    ELSE IF month_int.raised THEN month_int
    ELSE IF year_int.raised THEN year_int
    ELSE IF year_int.value # 0 /\ month_int.value # 0 /\ day_int.value # 0
    THEN _validate_full_date(year_int.value, month_int.value, day_int.value)
    ELSE Ok(None)

\* MultiPartDateField.validate, given what its calls return or raise: req by
\* _validate_required, year_int, month_int and day_int by the part validators
ValidateSteps(f, v, req, year_int, month_int, day_int) ==
    IF req.raised THEN req
    ELSE IF ~f.progressive /\ ~_is_complete_date(v)
    THEN Raise("Either all or none of the date parts (day, month, year) must be provided.")
    ELSE IF year_int.raised THEN year_int
    ELSE IF month_int.raised THEN month_int
    ELSE IF day_int.raised THEN day_int
    ELSE IF year_int.value # 0 /\ month_int.value # 0 /\ day_int.value # 0
    THEN _validate_full_date(year_int.value, month_int.value, day_int.value)
    ELSE Ok(None)

\* MultiPartDateField.validate
MultiPartDateField_validate(f, v) ==
    ValidateSteps(f, v, _validate_required(f, v),
                  _validate_year_only("year", v),
                  _validate_month_only("month", v),
                  _validate_day_only("day", v))

\* date(y, m, d) on what int() gave for the three parts
DateOfInts(y, m, d) ==
    IF y.ok /\ m.ok /\ d.ok /\ IsRealDate(y.n, m.n, d.n)
    THEN Ok(Date(y.n, m.n, d.n))
    ELSE ValueError

\* date(int(year), int(month), int(day)): ValueError unless it is a real date
MakeDate(year, month, day) == DateOfInts(ParseInt(year), ParseInt(month), ParseInt(day))

\* MultiPartDateField.clean after super().clean(value), which runs validate,
\* returned or raised r
CleanValidated(f, v, r) ==
    IF r.raised THEN r
    ELSE IF v.year # << >> /\ v.month # << >> /\ v.day # << >>
    THEN MakeDate(v.year, v.month, v.day)
    ELSE IF f.progressive THEN Ok(Dict(v))
    ELSE Ok(None)

\* MultiPartDateField.clean
MultiPartDateField_clean(f, v) == CleanValidated(f, v, MultiPartDateField_validate(f, v))

\* _create_date_from_parts as it would be if a missing month became February
FromDateField_create_date_from_parts_february(year, month, day) ==
    MakeDate(year,
             IF month = << >> THEN <<"0", "2">> ELSE month,
             IF day = << >> THEN <<"0", "1">> ELSE day)

\* _create_date_from_parts as it would be if a missing month became December
FromDateField_create_date_from_parts_december(year, month, day) ==
    MakeDate(year,
             IF month = << >> THEN <<"1", "2">> ELSE month,
             IF day = << >> THEN <<"0", "1">> ELSE day)

\* FromDateField._create_date_from_parts
FromDateField_create_date_from_parts(year, month, day) ==
    MakeDate(year,
             IF month = << >> THEN <<"0", "1">> ELSE month,
             IF day = << >> THEN <<"0", "1">> ELSE day)

\* str(n) as characters, for the day numbers 28..31 of calendar.monthrange
IntToChars(n) == CASE n = 28 -> <<"2", "8">> [] n = 29 -> <<"2", "9">>
                   [] n = 30 -> <<"3", "0">> [] n = 31 -> <<"3", "1">>

\* _create_date_from_parts as it would be if it kept a day given without a month
ToDateField_create_date_from_parts_keeping_day(year, month, day) ==
    IF month # << >>
    THEN MakeDate(year, month,
                  IntToChars(DaysInMonth(ParseInt(year).n, ParseInt(month).n)))
    ELSE MakeDate(year, <<"1", "2">>, IF day = << >> THEN <<"3", "1">> ELSE day)

\* ToDateField._create_date_from_parts
ToDateField_create_date_from_parts(year, month, day) ==
    IF month # << >>
    THEN MakeDate(year, month,
                  IntToChars(DaysInMonth(ParseInt(year).n, ParseInt(month).n)))
    ELSE MakeDate(year, <<"1", "2">>, <<"3", "1">>)

\* BaseProgressiveDateField._create_date_from_parts, as the subclass overrides it
_create_date_from_parts(f, year, month, day) ==
    IF f.kind = "FromDateField"
    THEN FromDateField_create_date_from_parts(year, month, day)
    ELSE ToDateField_create_date_from_parts(year, month, day)

\* clean as it would be if it returned the parts when no year was entered
CompleteCleaned_keeping_parts(f, r) ==
    IF r.raised THEN r
    ELSE IF r.value.type = "dict" /\ r.value.v.year # << >>
    THEN _create_date_from_parts(f, r.value.v.year, r.value.v.month, r.value.v.day)
    ELSE r

\* BaseProgressiveDateField.clean after super().clean(value) returned or raised r
CompleteCleaned(f, r) ==
    IF r.raised THEN r
    ELSE IF r.value.type = "dict"
    THEN (IF r.value.v.year # << >>
          THEN _create_date_from_parts(f, r.value.v.year, r.value.v.month,
                                       r.value.v.day)
          ELSE Ok(None))
    ELSE r

\* BaseProgressiveDateField.clean
BaseProgressiveDateField_clean(f, v) == CompleteCleaned(f, MultiPartDateField_clean(f, v))

----------------------------------------------------------------------------
(* is_valid, for every field class *)

IsDateField(f) == f.kind \in {"MultiPartDateField", "FromDateField", "ToDateField"}
IsDynamic(f) == f.kind = "DynamicMultipleChoiceField"

\* self.clean(self.value), dispatched on the class of the field
clean(f) ==
    CASE f.kind = "CharField" -> CharField_clean(f, f._value)
      [] f.kind = "ChoiceField" -> ChoiceField_clean(f, f._value)
      [] f.kind = "DynamicMultipleChoiceField" ->
            DynamicMultipleChoiceField_clean(f, f._value)
      [] f.kind = "MultiPartDateField" -> MultiPartDateField_clean(f, f._value)
      [] f.kind \in {"FromDateField", "ToDateField"} ->
            BaseProgressiveDateField_clean(f, f._value)

\* r is an exception that "except ValidationError" does not catch
Uncaught(r) == r.raised /\ r.exc # "ValidationError"

\* clean raises something other than ValidationError: is_valid does not return
Escapes(f) == Uncaught(clean(f))

\* is_valid as it would be if a clean that succeeds cleared the error
AfterClean_resetting(f, r) ==
    IF ~r.raised THEN [f EXCEPT !._cleaned = r.value, !._error = {}]
    ELSE IF r.exc = "ValidationError" THEN add_error(f, r.message)
    ELSE f

\* BaseField.is_valid after self.clean(self.value) returned or raised r
AfterClean(f, r) ==
    IF ~r.raised THEN [f EXCEPT !._cleaned = r.value]
    ELSE IF r.exc = "ValidationError" THEN add_error(f, r.message)
    ELSE f

\* BaseField.is_valid: the field after the call
is_valid(f) == AfterClean(f, clean(f))

\* BaseField.is_valid: the value the call returns
is_valid_result(f) == is_valid(f)._error = {}

----------------------------------------------------------------------------
(* Forms: BaseForm (app/lib/forms.py) and the search forms *)

\* validate_date_range as it would be if equal dates were rejected too
validate_date_range_strict(date_from, date_to, prefix_text) ==
    IF /\ cleaned(date_from) # None
       /\ cleaned(date_to) # None
       /\ ~DateGreater(cleaned(date_to), cleaned(date_from))
    THEN [date_from |-> add_error(date_from,
                "This date must be earlier than or equal to the 'to' date."),
          messages |-> <<prefix_text \o ": 'from' date ("
                          \o Strftime(cleaned(date_from))
                          \o ") cannot be after 'to' date ("
                          \o Strftime(cleaned(date_to)) \o ").">>]
    ELSE [date_from |-> date_from, messages |-> << >>]

\* CatalogueSearchBaseForm.validate_date_range: the from-field after the call
\* and the messages it returns
validate_date_range(date_from, date_to, prefix_text) ==
    IF /\ cleaned(date_from) # None
       /\ cleaned(date_to) # None
       /\ DateGreater(cleaned(date_from), cleaned(date_to))
    THEN [date_from |-> add_error(date_from,
                "This date must be earlier than or equal to the 'to' date."),
          messages |-> <<prefix_text \o ": 'from' date ("
                          \o Strftime(cleaned(date_from))
                          \o ") cannot be after 'to' date ("
                          \o Strftime(cleaned(date_to)) \o ").">>]
    ELSE [date_from |-> date_from, messages |-> << >>]

\* BaseForm.cross_validate: no messages
BaseForm_cross_validate(flds) == [fields |-> flds, messages |-> << >>]

\* CatalogueSearchBaseForm.cross_validate
CatalogueSearchBaseForm_cross_validate(flds) ==
    LET base == BaseForm_cross_validate(flds)
        r == validate_date_range(flds["covering_date_from"],
                                 flds["covering_date_to"], "Record dates")
    IN  [fields |-> [base.fields EXCEPT !["covering_date_from"] = r.date_from],
         messages |-> base.messages \o r.messages]

\* CatalogueSearchTnaForm.cross_validate: the inherited check of the covering
\* dates, then the opening dates
CatalogueSearchTnaForm_cross_validate(flds) ==
    LET base == CatalogueSearchBaseForm_cross_validate(flds)
        r == validate_date_range(flds["opening_date_from"],
                                 flds["opening_date_to"], "Record opening dates")
    IN  [fields |-> [base.fields EXCEPT !["opening_date_from"] = r.date_from],
         messages |-> base.messages \o r.messages]

\* form.cross_validate(), dispatched on the form class
cross_validate(frm, flds) ==
    CASE frm = "CatalogueSearchTnaForm" -> CatalogueSearchTnaForm_cross_validate(flds)
      [] frm = "CatalogueSearchNonTnaForm" -> CatalogueSearchBaseForm_cross_validate(flds)
      [] OTHER -> BaseForm_cross_validate(flds)

\* BaseForm.is_valid, first pass: every field's is_valid()
ValidatedFields(flds) == [n \in DOMAIN flds |-> is_valid(flds[n])]

\* BaseForm.errors: the errors of the fields that have one
errors(flds) == {n \in DOMAIN flds : flds[n]._error # {}}

\* BaseForm.is_valid: no field errors and no form-level errors
FormValid(flds, nfe) == errors(flds) = {} /\ nfe = << >>

TextDicts(messages) == [i \in DOMAIN messages |-> [text |-> messages[i]]]

----------------------------------------------------------------------------
(* The search view: APIMixin and CatalogueSearchFormMixin *)

\* app.records.constants.TNA_LEVELS.values()
TNA_LEVELS == <<"Department", "Division", "Series", "Sub-series",
                "Sub-sub-series", "Piece", "Item">>

\* app.search.collection_names.COLLECTION_CHOICES (the entries the tests use)
COLLECTION_CHOICES ==
    << <<"BT", "BT - Board of Trade and successors">>,
       <<"WO", "WO - War Office, Armed Forces, Judge Advocate General, and related bodies">> >>

\* the choices of the sort field in CatalogueSearchBaseForm.add_fields; the
\* dash of the two title labels is the en dash U+2013, written as its
\* escape \u2013
SORT_CHOICES == << <<"", "Relevance">>,
                   <<"date:desc", "Date (newest first)">>,
                   <<"date:asc", "Date (oldest first)">>,
                   <<"title:asc", "Title (A\\u2013Z)">>,
                   <<"title:desc", "Title (Z\\u2013A)">> >>

\* utils.camelcase_to_underscore on the aggregation names of the API
camelcase_to_underscore(name) == IF name = "heldBy" THEN "held_by" ELSE name

\* utils.underscore_to_camelcase on the field names of the form
underscore_to_camelcase(name) == IF name = "held_by" THEN "heldBy" ELSE name

\* APIMixin.replace_input_data
replace_input_data(field_name, selected_values) ==
    IF field_name = "level"
    THEN [i \in DOMAIN selected_values |->
            IF selected_values[i] = "Department" THEN "Lettercode"
            ELSE selected_values[i]]
    ELSE selected_values

\* replace_api_data as it would be if it left the API's values as they come
replace_api_data_unchanged(field_name, entries_data) == entries_data

\* APIMixin.replace_api_data: the entries after the in-place renaming
replace_api_data(field_name, entries_data) ==
    IF field_name = "level"
    THEN [i \in DOMAIN entries_data |->
            IF entries_data[i].value = "Lettercode"
            THEN [entries_data[i] EXCEPT !.value = "Department"]
            ELSE entries_data[i]]
    ELSE entries_data

\* Aggregation.as_input_choices_for_long_aggs(): the choices of filter_list
FILTER_LIST_CHOICES == << <<"", "No filter">>,
                          <<"longCollection", "collection">>,
                          <<"longHeldBy", "held_by">>,
                          <<"longSubject", "subject">> >>

\* the choices of the online field in CatalogueSearchTnaForm.add_fields
ONLINE_CHOICES == << <<"", "All records">>, <<"true", "Available online only">> >>

\* buckets.CATALOGUE_BUCKETS: the key, label and aggregations of each bucket
CATALOGUE_BUCKETS ==
    <<[key |-> "tna", label |-> "Records at the National Archives",
       aggregations |-> <<"level", "collection", "closure", "subject">>],
      [key |-> "nonTna", label |-> "Records at other UK archives",
       aggregations |-> <<"heldBy">>]>>

\* BucketList.get_bucket for a key that names a bucket
get_bucket(key) ==
    CATALOGUE_BUCKETS[CHOOSE i \in DOMAIN CATALOGUE_BUCKETS :
                        CATALOGUE_BUCKETS[i].key = key]

\* the order in which add_fields declares the fields of a form
FieldOrder(frm) ==
    CASE frm = "CatalogueSearchTnaForm" ->
            <<"group", "sort", "q", "filter_list", "level", "collection", "subject",
              "online", "closure", "covering_date_from", "covering_date_to",
              "opening_date_from", "opening_date_to">>
      [] frm = "CatalogueSearchNonTnaForm" ->
            <<"group", "sort", "q", "filter_list", "covering_date_from",
              "covering_date_to", "held_by">>
      [] OTHER -> <<"field">>

\* form.fields in iteration order: the declared names flds holds
FieldNames(frm, flds) == SelectSeq(FieldOrder(frm), LAMBDA n : n \in DOMAIN flds)

RECURSIVE Flatten(_)
Flatten(lists) == IF lists = << >> THEN << >> ELSE Head(lists) \o Flatten(Tail(lists))

\* filter_map of _get_date_api_params, up to the year
filter_map ==
    [covering_date_from |-> "coveringFromDate:(>=",
     covering_date_to |-> "coveringToDate:(<=",
     opening_date_from |-> "openingFromDate:(>=",
     opening_date_to |-> "openingToDate:(<="]

\* what the loop of _get_date_api_params appends for one field
DateFilter(field_name, f) ==
    IF /\ f.kind \in {"FromDateField", "ToDateField"}
       /\ cleaned(f) # None
       /\ field_name \in DOMAIN filter_map
    THEN <<filter_map[field_name] \o ToString(cleaned(f).year) \o "-"
            \o ToString(cleaned(f).month) \o "-" \o ToString(cleaned(f).day) \o ")">>
    ELSE << >>

\* APIMixin._get_date_api_params
_get_date_api_params(frm, flds) ==
    LET names == FieldNames(frm, flds)
    IN  Flatten([i \in DOMAIN names |-> DateFilter(names[i], flds[names[i]])])

\* what the loop of get_api_params adds to filter_aggregations for one field
FilterAggregations(field_name, f) ==
    IF IsDynamic(f)
    THEN LET selected_values == replace_input_data(field_name, cleaned(f).v)
         IN  [i \in DOMAIN selected_values |->
                underscore_to_camelcase(field_name) \o ":" \o selected_values[i]]
    ELSE << >>

\* APIMixin.get_api_params; digitised is << >> when the key is not set
get_api_params(frm, flds, current_bucket) ==
    LET names == FieldNames(frm, flds)
    IN  [aggs |-> current_bucket.aggregations,
         filter |-> <<"group:" \o current_bucket.key>>
                    \o (IF current_bucket.key = "nonTna" THEN <<"datatype:record">>
                        ELSE << >>)
                    \o _get_date_api_params(frm, flds)
                    \o Flatten([i \in DOMAIN names |->
                                    FilterAggregations(names[i], flds[names[i]])]),
         digitised |-> IF current_bucket.key = "tna"
                          /\ cleaned(flds["online"]) = Str("true")
                       THEN <<"true">> ELSE << >>]

\* APIMixin.process_api_result: api_result.aggregations after the call, the
\* entries of a dynamic field's aggregation renamed in place by
\* replace_api_data
processed_aggregations(flds, aggregations) ==
    [i \in DOMAIN aggregations |->
        LET field_name == camelcase_to_underscore(aggregations[i].name)
        IN  IF field_name \in DOMAIN flds /\ IsDynamic(flds[field_name])
            THEN [aggregations[i] EXCEPT
                    !.entries = replace_api_data(field_name, aggregations[i].entries)]
            ELSE aggregations[i]]

\* APIMixin.process_api_result: form.fields after the aggregations of the
\* result were applied in order
RECURSIVE process_api_result(_, _)
process_api_result(flds, aggregations) ==
    IF aggregations = << >> THEN flds
    ELSE LET aggregation == Head(aggregations)
             field_name == camelcase_to_underscore(aggregation.name)
             choice_api_data == replace_api_data(field_name, aggregation.entries)
             updated ==
                IF field_name \in DOMAIN flds /\ IsDynamic(flds[field_name])
                THEN [flds EXCEPT ![field_name] =
                        [update_choices(flds[field_name], choice_api_data,
                                        flds[field_name]._value)
                            EXCEPT !.more_filter_options_available =
                                        <<aggregation.other # 0>>]]
                ELSE flds
         IN  process_api_result(updated, Tail(aggregations))

----------------------------------------------------------------------------
(* Bounds and the inputs of the model *)

\* longest list of values bound to, or passed as selected to, a dynamic field
MaxSelected == 2
\* longest list of aggregation entries passed to update_choices by a test
MaxApiEntries == 2

BoundedSeq(S, n) == UNION {[1..k -> S] : k \in 0..n}

\* the lists QueryDict.getlist / QueryDict.get see for one key: no value or one
PartLists(S) == {<< >>} \cup {<<x>> : x \in S}

\* submitted values of a CharField
CHAR_INPUTS == {<< >>, << <<"u", "f", "o">> >>, << <<" ">> >>,
                << <<" ", "a", " ">> >>, << <<"a">>, << >> >>,
                << <<"\t", "", "a", "", "\n">> >>}

\* submitted values of a ChoiceField
CHOICE_INPUTS == {<< >>, <<"">>, <<"title:asc">>, <<"date:desc">>, <<"bogus">>,
                  <<"bogus", "tna">>}

\* CATALOGUE_BUCKETS.as_choices()
GROUP_CHOICES ==
    [i \in DOMAIN CATALOGUE_BUCKETS |->
        <<CATALOGUE_BUCKETS[i].key, CATALOGUE_BUCKETS[i].label>>]

\* the choices of the field of test_dynamic_multiple_choice_field.py
LOCATION_CHOICES == << <<"london", "London">>, <<"leeds", "Leeds">> >>

\* values submitted for a dynamic field under test
INPUT_VALUES == {"london", "manchester"}
\* values passed as selected_values by a test
SELECTED_VALUES == {"london", "manchester"}
\* aggregation entries passed as choice_api_data by a test
API_ENTRIES == {[value |-> "london", doc_count |-> 10],
                [value |-> "york", doc_count |-> 1005000]}
\* the lists of entries of one aggregation: a value has one bucket
API_ENTRY_LISTS ==
    {a \in BoundedSeq(API_ENTRIES, MaxApiEntries) :
        \A i, j \in DOMAIN a : a[i].value = a[j].value => i = j}

\* the parts submitted for a single date field under test
YEAR_INPUTS == {<< >>, <<"2", "0", "2", "3">>, <<"2", "0", "2", "4">>, <<"0">>,
                <<"a", "b", "c">>, <<"1", "0", "0", "0", "0">>, <<"1", "9", "0", "0">>,
                <<"2", "_", "0", "2", "3">>}
MONTH_INPUTS == {<< >>, <<"2">>, <<"4">>, <<"1", "2">>, <<"1", "3">>, <<"x">>}
DAY_INPUTS == {<< >>, <<"1">>, <<"2", "9">>, <<"3", "0">>, <<"3", "1">>,
               <<"3", "2">>, <<" ">>, <<"\t", "1", "">>,
               <<"", "1">>}

\* the parts submitted for the from/to pair of a form under test
PAIR_YEARS == {<< >>, <<"1", "9", "9", "9">>, <<"2", "0", "0", "0">>, <<"A", "B", "C">>}
PAIR_MONTHS == {<< >>, <<"2">>}
PAIR_DAYS == {<< >>, <<"1">>}

\* the years submitted to the view for covering_date_from / covering_date_to
VIEW_YEARS == {<< >>, <<"1", "9", "9", "9">>, <<"2", "0", "0", "0">>, <<"A", "B", "C">>}
\* values submitted to the view
VIEW_SORT_INPUTS == {<<"">>, <<"bogus">>}
VIEW_LEVEL_VALUES == {"Department", "Division", "invalid"}
VIEW_COLLECTION_VALUES == {"BT", "DOESNOTEXIST"}
VIEW_Q_INPUTS == {<< >>, << <<"u", "f", "o">> >>}
VIEW_ONLINE_INPUTS == {<< >>, <<"true">>}
VIEW_SUBJECT_INPUTS == {<< >>, <<"Army">>}
VIEW_CLOSURE_INPUTS == {<< >>, <<"Open Document, Open Description">>}
\* the years submitted to the view for opening_date_from / opening_date_to
VIEW_OPENING_YEARS == {<< >>, <<"1", "9", "9", "9">>, <<"2", "0", "0", "0">>}

\* the values of page submitted to the view
VIEW_PAGES == {<<"0">>, <<"a", "b", "c">>, <<"-", "1">>, <<"2">>, <<"3">>}
\* the values of group that do not name the tna bucket
VIEW_OTHER_GROUPS == {<<"nonTna">>, <<"bogus">>, <<"tna", "nonTna">>}
VIEW_HELD_BY_INPUTS == {<< >>, <<"Lettercode">>}
\* a from year later than the to year, or neither
VIEW_YEAR_PAIRS == {<<<< >>, << >>>>, << <<<<"2", "0", "0", "0">>>>, <<<<"1", "9", "9", "9">>>> >>}

\* the query string without any of the parameters the view reads
NoParameters ==
    [group |-> << >>, sort |-> << >>, q |-> << >>, filter_list |-> << >>,
     level |-> << >>, collection |-> << >>, subject |-> << >>, online |-> << >>,
     closure |-> << >>, held_by |-> << >>,
     covering_from_year |-> << >>, covering_to_year |-> << >>,
     opening_from_year |-> << >>, opening_to_year |-> << >>, page |-> << >>]

\* the query string with the parameters of given
Parameters(given) ==
    [k \in DOMAIN NoParameters |->
        IF k \in DOMAIN given THEN given[k] ELSE NoParameters[k]]

\* the requests the view is sent: the level, collection, sort and covering
\* date parameters of the tna bucket in every combination; its other
\* parameters in every combination, with and without a failing covering date
\* range; requests for another group; requests for the tna bucket with a
\* single-choice parameter given twice; requests with a page
VIEW_REQUESTS ==
    {Parameters([sort |-> sort, level |-> level, collection |-> collection,
                 covering_from_year |-> fy, covering_to_year |-> ty]) :
        sort \in VIEW_SORT_INPUTS,
        level \in BoundedSeq(VIEW_LEVEL_VALUES, MaxSelected),
        collection \in BoundedSeq(VIEW_COLLECTION_VALUES, MaxSelected),
        fy \in PartLists(VIEW_YEARS), ty \in PartLists(VIEW_YEARS)}
    \cup
    {Parameters([sort |-> <<"">>, covering_from_year |-> c[1], covering_to_year |-> c[2],
                 q |-> q, online |-> online, subject |-> subject, closure |-> closure,
                 opening_from_year |-> ofy, opening_to_year |-> oty]) :
        c \in VIEW_YEAR_PAIRS,
        q \in VIEW_Q_INPUTS, online \in VIEW_ONLINE_INPUTS,
        subject \in VIEW_SUBJECT_INPUTS, closure \in VIEW_CLOSURE_INPUTS,
        ofy \in PartLists(VIEW_OPENING_YEARS), oty \in PartLists(VIEW_OPENING_YEARS)}
    \cup
    {Parameters([group |-> group, sort |-> sort, held_by |-> held_by,
                 covering_from_year |-> c[1], covering_to_year |-> c[2],
                 page |-> pg]) :
        group \in VIEW_OTHER_GROUPS,
        sort \in {<< >>, <<"title:asc", "date:asc">>},
        held_by \in VIEW_HELD_BY_INPUTS,
        c \in VIEW_YEAR_PAIRS,
        pg \in {<< >>, <<<<"2">>>>}}
    \cup
    {Parameters(given) :
        given \in {[group |-> <<"tna", "tna">>], [group |-> <<"nonTna", "tna">>],
                   [sort |-> <<"title:asc", "date:asc">>],
                   [online |-> <<"true", "true">>],
                   [filter_list |-> <<"", "longSubject">>]}}
    \cup
    {Parameters([page |-> pg, q |-> q, level |-> level]) :
        pg \in PartLists(VIEW_PAGES) \cup {<<<<"1">>, <<"2">>>>},
        q \in VIEW_Q_INPUTS, level \in {<< >>, <<"Item">>, <<"invalid">>}}

\* aggregations the search API may return for the tna bucket
LEVEL_AGGREGATIONS ==
    {[name |-> "level", entries |-> e, other |-> o] :
        e \in {<< >>,
               <<[value |-> "Lettercode", doc_count |-> 100]>>,
               <<[value |-> "Item", doc_count |-> 1234],
                 [value |-> "Division", doc_count |-> 5]>>},
        o \in {0, 7}}
COLLECTION_AGGREGATIONS ==
    {[name |-> "collection", entries |-> e, other |-> o] :
        e \in {<< >>,
               <<[value |-> "BT", doc_count |-> 50],
                 [value |-> "VALUE-DOES-NOT-MATCH-CONFIG", doc_count |-> 35]>>},
        o \in {0, 7}}
\* aggregations of the other dynamic fields, and one of no field of the form
OTHER_AGGREGATIONS ==
    {[name |-> "subject",
      entries |-> <<[value |-> "Army", doc_count |-> 100],
                    [value |-> "Navy", doc_count |-> 50]>>, other |-> 0],
     [name |-> "closure",
      entries |-> <<[value |-> "Open Document, Open Description", doc_count |-> 10]>>,
      other |-> 7],
     [name |-> "heldBy",
      entries |-> <<[value |-> "Lettercode", doc_count |-> 5]>>, other |-> 0]}
\* results that name an aggregation twice: with the same entries, and with
\* other entries the second time
REPEATED_AGGREGATIONS ==
    {<<[name |-> "subject",
        entries |-> <<[value |-> "Army", doc_count |-> 100]>>, other |-> 0],
       [name |-> "subject",
        entries |-> <<[value |-> "Army", doc_count |-> 100]>>, other |-> 0]>>,
     <<[name |-> "heldBy",
        entries |-> <<[value |-> "Lettercode", doc_count |-> 5]>>, other |-> 0],
       [name |-> "heldBy",
        entries |-> <<[value |-> "Archive", doc_count |-> 3]>>, other |-> 7]>>}
\* the results: the level and the collection aggregation, each present or
\* not, or one of the other aggregations, or an aggregation twice
API_RESULTS ==
    {l \o c : l \in {<< >>} \cup {<<a>> : a \in LEVEL_AGGREGATIONS},
              c \in {<< >>} \cup {<<a>> : a \in COLLECTION_AGGREGATIONS}}
    \cup {<<a>> : a \in OTHER_AGGREGATIONS}
    \cup REPEATED_AGGREGATIONS
\* the answers of the search API: the aggregations with results on two
\* pages, and no aggregation with no result or results on one page
API_ANSWERS ==
    {[aggregations |-> r, stats_total |-> 25] : r \in API_RESULTS}
    \cup {[aggregations |-> << >>, stats_total |-> t] : t \in {0, 5}}

DateData(y, m, d) == [year |-> y, month |-> m, day |-> d]

\* the single fields a test form is built around, after bind
TestFields ==
    {CharField_bind(CharField(req), input) :
        req \in BOOLEAN, input \in CHAR_INPUTS}
    \cup
    {ChoiceField_bind(ChoiceField(ch, req), input) :
        ch \in {SORT_CHOICES, GROUP_CHOICES}, req \in BOOLEAN, input \in CHOICE_INPUTS}
    \cup
    {DynamicMultipleChoiceField_bind(DynamicMultipleChoiceField(ch, req, kw), input) :
        ch \in {<< >>, LOCATION_CHOICES}, req \in BOOLEAN,
        kw \in {<< >>, <<TRUE>>, <<FALSE>>},
        input \in BoundedSeq(INPUT_VALUES, MaxSelected)}
    \cup
    {MultiPartDateField_bind(MultiPartDateField(k, prog, req), DateData(y, m, d)) :
        k \in {"MultiPartDateField", "FromDateField", "ToDateField"},
        prog \in BOOLEAN, req \in BOOLEAN,
        y \in PartLists(YEAR_INPUTS), m \in PartLists(MONTH_INPUTS),
        d \in PartLists(DAY_INPUTS)}

\* the from and to date fields as add_fields declares them, after bind
CoveringFrom(y, m, d) ==
    MultiPartDateField_bind(MultiPartDateField("FromDateField", TRUE, FALSE),
                            DateData(y, m, d))
CoveringTo(y, m, d) ==
    MultiPartDateField_bind(MultiPartDateField("ToDateField", TRUE, FALSE),
                            DateData(y, m, d))

NoneYet(names) == [n \in names |-> << >>]

NoParams == [aggs |-> << >>, filter |-> << >>, digitised |-> << >>]

\* the call of search_records: its params, the aggregations of the response
\* as received, api_result.aggregations as the view holds them, and
\* api_result.stats_total
IdleApi == [state |-> "idle", params |-> NoParams, response |-> << >>, result |-> << >>,
            stats_total |-> 0]

----------------------------------------------------------------------------
(* Initial states: the form is constructed and bound *)

InitObserversAt(position) ==
    /\ non_field_errors = << >>
    /\ pc = position
    /\ returned = NoneYet(DOMAIN fields)
    /\ fresh = {}
    /\ api = IdleApi
    /\ uc_last = NoneYet(DOMAIN fields)
    /\ rendered = NoneYet(DOMAIN fields)

InitObservers == page = << >> /\ InitObserversAt("bound")

\* a unit test builds a form around one field
InitTestForm ==
    /\ form = "MyTestForm"
    /\ \E fld \in TestFields : fields = [n \in {"field"} |-> fld]
    /\ InitObservers

\* a unit test builds a form with the covering date pair
InitDateRangeForm ==
    /\ form = "CatalogueSearchNonTnaForm"
    /\ \E fy, ty \in PartLists(PAIR_YEARS), fm, tm \in PartLists(PAIR_MONTHS),
          fd, td \in PartLists(PAIR_DAYS) :
            fields = [n \in {"covering_date_from", "covering_date_to"} |->
                        IF n = "covering_date_from" THEN CoveringFrom(fy, fm, fd)
                        ELSE CoveringTo(ty, tm, td)]
    /\ InitObservers

\* a dynamic field of a search form, after bind
Dynamic(choices, validate_input_kw, input) ==
    DynamicMultipleChoiceField_bind(
        DynamicMultipleChoiceField(choices, FALSE, validate_input_kw), input)

\* the parameters whose values are held as their characters
CHARACTER_PARAMETERS == {"q", "covering_from_year", "covering_to_year",
                         "opening_from_year", "opening_to_year", "page"}

\* CatalogueSearchFormMixin.get_form_kwargs: the data of the form, without the
\* parameters that have empty values only and with the defaults of
\* get_defaults
get_form_kwargs(request) ==
    [k \in DOMAIN request |->
        LET empty == IF k \in CHARACTER_PARAMETERS THEN {<< >>} ELSE {""}
            values == IF \A i \in DOMAIN request[k] : request[k][i] \in empty
                      THEN << >> ELSE request[k]
        IN  IF values # << >> THEN values
            ELSE IF k = "group" THEN <<"tna">>
            ELSE IF k = "sort" THEN <<"">>
            ELSE << >>]

\* the fields CatalogueSearchBaseForm.add_fields declares, and the covering
\* dates both search forms add, bound to data
BoundBaseField(n, data) ==
    CASE n = "group" -> ChoiceField_bind(ChoiceField(GROUP_CHOICES, FALSE), data.group)
      [] n = "sort" -> ChoiceField_bind(ChoiceField(SORT_CHOICES, FALSE), data.sort)
      [] n = "q" -> CharField_bind(CharField(FALSE), data.q)
      [] n = "filter_list" ->
            ChoiceField_bind(ChoiceField(FILTER_LIST_CHOICES, FALSE), data.filter_list)
      [] n = "covering_date_from" -> CoveringFrom(data.covering_from_year, << >>, << >>)
      [] n = "covering_date_to" -> CoveringTo(data.covering_to_year, << >>, << >>)

\* CatalogueSearchTnaForm.add_fields and the bind of the data
CatalogueSearchTnaForm(data) ==
    [n \in Range(FieldOrder("CatalogueSearchTnaForm")) |->
        CASE n = "level" ->
                Dynamic([i \in DOMAIN TNA_LEVELS |-> <<TNA_LEVELS[i], TNA_LEVELS[i]>>],
                        <<TRUE>>, data.level)
          [] n = "collection" -> Dynamic(COLLECTION_CHOICES, <<FALSE>>, data.collection)
          [] n = "subject" -> Dynamic(<< >>, << >>, data.subject)
          [] n = "online" -> ChoiceField_bind(ChoiceField(ONLINE_CHOICES, FALSE), data.online)
          [] n = "closure" -> Dynamic(<< >>, << >>, data.closure)
          [] n = "opening_date_from" -> CoveringFrom(data.opening_from_year, << >>, << >>)
          [] n = "opening_date_to" -> CoveringTo(data.opening_to_year, << >>, << >>)
          [] OTHER -> BoundBaseField(n, data)]

\* CatalogueSearchNonTnaForm.add_fields and the bind of the data
CatalogueSearchNonTnaForm(data) ==
    [n \in Range(FieldOrder("CatalogueSearchNonTnaForm")) |->
        IF n = "held_by" THEN Dynamic(<< >>, << >>, data.held_by)
        ELSE BoundBaseField(n, data)]

\* the parameters of the ChoiceFields of the tna form
SINGLE_VALUE_PARAMETERS == {"group", "sort", "filter_list", "online"}

\* CatalogueSearchFormMixin.setup: the form the view builds from the request
\* and binds to its data; when a ChoiceField of the tna form was given more
\* than one value, setup raises SuspiciousOperation after it has stored the
\* bound form, and get is never called
setup(request) ==
    LET data == get_form_kwargs(request)
    IN  IF data.group[Len(data.group)] = "tna"
        THEN [form |-> "CatalogueSearchTnaForm",
              fields |-> CatalogueSearchTnaForm(data),
              pc |-> IF \E k \in SINGLE_VALUE_PARAMETERS : Len(data[k]) > 1
                     THEN "suspicious_operation" ELSE "bound"]
        ELSE [form |-> "CatalogueSearchNonTnaForm",
              fields |-> CatalogueSearchNonTnaForm(data), pc |-> "bound"]

\* the view is set up for a request
InitView ==
    \E request \in VIEW_REQUESTS :
        /\ page = request.page
        /\ form = setup(request).form
        /\ fields = setup(request).fields
        /\ InitObserversAt(setup(request).pc)

----------------------------------------------------------------------------
(* Observers shared by the actions *)

\* the record of an update_choices call on field n; repeat tells that the
\* previous call on the field had the same arguments
RecordedAfter(last, a, s, explicit) ==
    <<[api |-> a, selected |-> s, explicit |-> explicit,
       repeat |-> /\ last # << >>
                  /\ last[1].api = a
                  /\ last[1].selected = s]>>

Recorded(n, a, s, explicit) == RecordedAfter(uc_last[n], a, s, explicit)

\* the records of the update_choices calls process_api_result makes for the
\* aggregations in order, after last
RECURSIVE RecordedByProcess(_, _, _)
RecordedByProcess(flds, aggregations, last) ==
    IF aggregations = << >> THEN last
    ELSE LET field_name == camelcase_to_underscore(Head(aggregations).name)
         IN  RecordedByProcess(flds, Tail(aggregations),
                IF field_name \in DOMAIN flds /\ IsDynamic(flds[field_name])
                THEN [last EXCEPT ![field_name] =
                        RecordedAfter(last[field_name],
                            replace_api_data(field_name, Head(aggregations).entries),
                            flds[field_name]._value, TRUE)]
                ELSE last)

\* items on f calls update_choices
LazyCall(f) ==
    IF f._error # {} THEN f.configured_choices # << >> ELSE ~f.choices_updated

\* the selected_values of that call
LazySelected(f) == IF f._error # {} THEN << >> ELSE f._value

HasItems(f) == f.kind \in {"ChoiceField", "DynamicMultipleChoiceField"}

\* field.items: the list returned
items(f) == IF IsDynamic(f) THEN DynamicMultipleChoiceField_items(f)
            ELSE ChoiceField_items(f)

\* field.items: the field after the access
AfterItems(f) == IF IsDynamic(f) THEN items_reconcile(f) ELSE f

\* uc_last after items was accessed on the fields in names
UcAfterItems(names) ==
    [n \in DOMAIN fields |->
        IF n \in names /\ IsDynamic(fields[n]) /\ LazyCall(fields[n])
        THEN Recorded(n, << >>, LazySelected(fields[n]), FALSE)
        ELSE uc_last[n]]

----------------------------------------------------------------------------
(* Actions of a unit test driving a form and its fields *)

\* field.is_valid()
FieldIsValid(n) ==
    /\ pc \in {"bound", "validated"}
    /\ IF Escapes(fields[n])
       THEN /\ pc' = "error"
            /\ UNCHANGED <<fields, returned, fresh, rendered>>
       ELSE /\ fields' = [fields EXCEPT ![n] = is_valid(fields[n])]
            /\ returned' = [returned EXCEPT ![n] = <<is_valid_result(fields[n])>>]
            /\ fresh' = fresh \cup {n}
            /\ rendered' = [rendered EXCEPT ![n] = << >>]
            /\ pc' = pc
    /\ UNCHANGED <<form, page, non_field_errors, api, uc_last>>

\* form.is_valid(): every field's is_valid(), then cross_validate()
FormIsValid ==
    /\ pc = "bound"
    /\ IF \E n \in DOMAIN fields : Escapes(fields[n])
       THEN /\ pc' = "error"
            /\ UNCHANGED <<fields, non_field_errors, returned, fresh, rendered>>
       ELSE LET v == ValidatedFields(fields)
                c == cross_validate(form, v)
            IN  /\ fields' = c.fields
                /\ non_field_errors' = TextDicts(c.messages)
                /\ returned' = [n \in DOMAIN fields |-> <<v[n]._error = {}>>]
                /\ fresh' = {n \in DOMAIN fields : c.fields[n] = v[n]}
                /\ rendered' = NoneYet(DOMAIN fields)
                /\ pc' = "validated"
    /\ UNCHANGED <<form, page, api, uc_last>>

\* field.update_choices(choice_api_data, selected_values)
UpdateChoices(n, a, s) ==
    /\ pc \in {"bound", "validated"}
    /\ IsDynamic(fields[n])
    /\ fields' = [fields EXCEPT ![n] = update_choices(fields[n], a, s)]
    /\ uc_last' = [uc_last EXCEPT ![n] = Recorded(n, a, s, TRUE)]
    /\ rendered' = [rendered EXCEPT ![n] = << >>]
    /\ UNCHANGED <<form, page, non_field_errors, pc, returned, fresh, api>>

\* field.items
AccessItems(n) ==
    /\ pc \in {"bound", "validated", "done"}
    /\ HasItems(fields[n])
    /\ fields' = [fields EXCEPT ![n] = AfterItems(fields[n])]
    /\ rendered' = [rendered EXCEPT ![n] = <<items(fields[n])>>]
    /\ uc_last' = UcAfterItems({n})
    /\ UNCHANGED <<form, page, non_field_errors, pc, returned, fresh, api>>

----------------------------------------------------------------------------
(* Actions of CatalogueSearchFormMixin.get *)

RESULTS_PER_PAGE == 20
PAGE_LIMIT == 500

\* the page property of the view: int() of the last page of the query string,
\* 1 without one; a value that is no integer or is below 1 is a PageNotFound
page_of(pages) ==
    IF pages = << >> THEN [ok |-> TRUE, n |-> 1]
    ELSE LET parsed == ParseInt(pages[Len(pages)])
         IN  IF parsed.ok /\ parsed.n >= 1 THEN parsed ELSE [ok |-> FALSE, n |-> 0]

\* paginate_api_result: the number of pages of a result
pages_of(stats_total) ==
    LET pages == (stats_total + RESULTS_PER_PAGE - 1) \div RESULTS_PER_PAGE
    IN  IF pages > PAGE_LIMIT THEN PAGE_LIMIT ELSE pages

\* get_context_data paginates a result with records, and the page is beyond
\* its last page
PageBeyond(a, pages) ==
    /\ a.state = "returned"
    /\ a.stats_total > 0
    /\ page_of(pages).n > pages_of(a.stats_total)

\* get: the page is read before the form is looked at; an invalid page is
\* answered with the page not found view
PageNotFound ==
    /\ pc = "bound"
    /\ ~page_of(page).ok
    /\ pc' = "page_not_found"
    /\ UNCHANGED <<form, page, fields, non_field_errors, returned, fresh, api, uc_last, rendered>>

\* form.is_valid(), first pass: every field's is_valid()
ValidateFields ==
    /\ pc = "bound"
    /\ page_of(page).ok
    /\ IF \E n \in DOMAIN fields : Escapes(fields[n])
       THEN /\ pc' = "error"
            /\ UNCHANGED <<fields, returned, fresh>>
       ELSE /\ fields' = ValidatedFields(fields)
            /\ returned' = [n \in DOMAIN fields |-> <<is_valid_result(fields[n])>>]
            /\ fresh' = DOMAIN fields
            /\ pc' = "fields_validated"
    /\ UNCHANGED <<form, page, non_field_errors, api, uc_last, rendered>>

\* form.is_valid(), second pass: cross_validate()
CrossValidate ==
    /\ pc = "fields_validated"
    /\ LET c == cross_validate(form, fields)
       IN  /\ fields' = c.fields
           /\ non_field_errors' = TextDicts(c.messages)
           /\ fresh' = {n \in DOMAIN fields : c.fields[n] = fields[n]}
    /\ pc' = "validated"
    /\ UNCHANGED <<form, page, returned, api, uc_last, rendered>>

\* get as it would be if it called form_valid without looking at is_valid()
CallApi_unchecked ==
    /\ pc = "validated"
    /\ api' = [api EXCEPT !.state = "called", !.params = NoParams]
    /\ pc' = "api_called"
    /\ UNCHANGED <<form, page, fields, non_field_errors, returned, fresh, uc_last, rendered>>

\* get: the form is valid; form_valid builds the parameters and calls the API
CallApi ==
    /\ pc = "validated"
    /\ FormValid(fields, non_field_errors)
    /\ api' = [api EXCEPT !.state = "called",
                          !.params = get_api_params(form, fields,
                                        get_bucket(cleaned(fields["group"]).v))]
    /\ pc' = "api_called"
    /\ UNCHANGED <<form, page, fields, non_field_errors, returned, fresh, uc_last, rendered>>

\* get: the form is invalid; form_invalid renders without calling the API
FormInvalid ==
    /\ pc = "validated"
    /\ ~FormValid(fields, non_field_errors)
    /\ pc' = "render"
    /\ UNCHANGED <<form, page, fields, non_field_errors, returned, fresh, api, uc_last, rendered>>

\* search_records returns the API result
ApiReturns(answer) ==
    /\ pc = "api_called"
    /\ api' = [api EXCEPT !.state = "returned",
                          !.response = answer.aggregations,
                          !.result = answer.aggregations,
                          !.stats_total = answer.stats_total]
    /\ pc' = "api_returned"
    /\ UNCHANGED <<form, page, fields, non_field_errors, returned, fresh, uc_last, rendered>>

\* get as it would be if form_invalid reset the choices of the dynamic fields
ApiNotFound_reconciling ==
    /\ pc = "api_called"
    /\ page_of(page).n = 1
    /\ api' = [api EXCEPT !.state = "not_found"]
    /\ fields' = [n \in DOMAIN fields |->
                    IF IsDynamic(fields[n]) THEN update_choices(fields[n], << >>, << >>)
                    ELSE fields[n]]
    /\ uc_last' = [n \in DOMAIN fields |->
                    IF IsDynamic(fields[n]) THEN Recorded(n, << >>, << >>, TRUE)
                    ELSE uc_last[n]]
    /\ pc' = "render"
    /\ UNCHANGED <<form, page, non_field_errors, returned, fresh, rendered>>

\* search_records raises ResourceNotFound, which it does for page 1 only; get
\* renders through form_invalid
ApiNotFound ==
    /\ pc = "api_called"
    /\ page_of(page).n = 1
    /\ api' = [api EXCEPT !.state = "not_found"]
    /\ pc' = "render"
    /\ UNCHANGED <<form, page, fields, non_field_errors, returned, fresh, uc_last, rendered>>

\* search_records raises another exception: the request fails
ApiFails ==
    /\ pc = "api_called"
    /\ api' = [api EXCEPT !.state = "failed"]
    /\ pc' = "error"
    /\ UNCHANGED <<form, page, fields, non_field_errors, returned, fresh, uc_last, rendered>>

\* form_valid: process_api_result
ProcessApiResult ==
    /\ pc = "api_returned"
    /\ fields' = process_api_result(fields, api.result)
    /\ api' = [api EXCEPT !.result = processed_aggregations(fields, api.result)]
    /\ uc_last' = RecordedByProcess(fields, api.result, uc_last)
    /\ pc' = "render"
    /\ UNCHANGED <<form, page, non_field_errors, returned, fresh, rendered>>

\* form_valid: get_context_data raises PageNotFound for a page beyond the
\* result; get answers with the page not found view and renders no form
PageBeyondResult ==
    /\ pc = "render"
    /\ PageBeyond(api, page)
    /\ pc' = "page_not_found"
    /\ UNCHANGED <<form, page, fields, non_field_errors, returned, fresh, api, uc_last, rendered>>

\* render_to_response: the template reads items of every field that has them
Render ==
    /\ pc = "render"
    /\ ~PageBeyond(api, page)
    /\ fields' = [n \in DOMAIN fields |->
                    IF HasItems(fields[n]) THEN AfterItems(fields[n]) ELSE fields[n]]
    /\ rendered' = [n \in DOMAIN fields |->
                    IF HasItems(fields[n]) THEN <<items(fields[n])>> ELSE << >>]
    /\ uc_last' = UcAfterItems(DOMAIN fields)
    /\ pc' = "done"
    /\ UNCHANGED <<form, page, non_field_errors, returned, fresh, api>>

\* the response is out: a test reads items of a field from its context
ReadItems(n) ==
    /\ pc = "done"
    /\ AccessItems(n)

----------------------------------------------------------------------------
(* Specifications *)

\* one request handled by the search view
Init == InitView

Next ==
    \/ PageNotFound
    \/ ValidateFields
    \/ CrossValidate
    \/ CallApi
    \/ FormInvalid
    \/ \E answer \in API_ANSWERS : ApiReturns(answer)
    \/ ApiNotFound
    \/ ApiFails
    \/ ProcessApiResult
    \/ PageBeyondResult
    \/ Render
    \/ \E n \in DOMAIN fields : ReadItems(n)

Spec == Init /\ [][Next]_vars

\* a unit test driving a form: any calls in any order
TestInit == InitTestForm \/ InitDateRangeForm

TestNext ==
    \/ FormIsValid
    \/ \E n \in DOMAIN fields : FieldIsValid(n)
    \/ \E n \in DOMAIN fields :
        \E a \in API_ENTRY_LISTS,
           s \in BoundedSeq(SELECTED_VALUES, MaxSelected) : UpdateChoices(n, a, s)
    \/ \E n \in DOMAIN fields : AccessItems(n)

TestSpec == TestInit /\ [][TestNext]_vars

----------------------------------------------------------------------------
(* Vocabulary of the properties *)

FROM == "covering_date_from"
TO == "covering_date_to"

\* the error cross validation puts on a from-field
CrossFieldError == {[text |-> "This date must be earlier than or equal to the 'to' date."]}

\* the label configured for v at construction, v itself when there is none
ConfiguredLabelOrValue(f, v) ==
    LET idx == {i \in DOMAIN f.configured_choices : f.configured_choices[i][1] = v}
    IN  IF idx = {} THEN v
        ELSE f.configured_choices[CHOOSE i \in idx : \A j \in idx : j <= i][2]

\* the thousands-grouped form of the counts the model uses
GROUPED == [c \in {5, 10, 35, 50, 100, 1234, 1005000} |->
              CASE c = 5 -> "5" [] c = 10 -> "10" [] c = 35 -> "35" [] c = 50 -> "50"
                [] c = 100 -> "100" [] c = 1234 -> "1,234" [] c = 1005000 -> "1,005,000"]

\* a date as one number, ordered as dates are
Ordinal(d) == d.year * 10000 + d.month * 100 + d.day

DynamicFields == {n \in DOMAIN fields : IsDynamic(fields[n])}

\* the last update_choices call on n was made by a caller, not by items
ExplicitUpdate(n) == uc_last[n] # << >> /\ uc_last[n][1].explicit
\* the last update_choices call on n was made by items
LazyUpdate(n) == uc_last[n] # << >> /\ ~uc_last[n][1].explicit

\* the five field classes the search forms use
FormFieldKinds == {"CharField", "ChoiceField", "DynamicMultipleChoiceField",
                   "FromDateField", "ToDateField"}
JustValidated == {n \in fresh : fields[n].kind \in FormFieldKinds}

----------------------------------------------------------------------------
(* C1 *)

\* C1 as stated: right after is_valid() of a field of any of the five classes,
\* "is_valid() returned true", "error == {}" and "cleaned is not None" are
\* equivalent.
C1_AsStated ==
    \A n \in JustValidated :
        /\ (returned[n] = <<TRUE>>) <=> (fields[n]._error = {})
        /\ (fields[n]._error = {}) <=> (cleaned(fields[n]) # None)

\* C1 (amended): right after is_valid(), it returned true iff error == {};
\* with an error cleaned is None; without an error cleaned is a value, except
\* that it is None for a from/to date field bound with an empty year.
C1_ValidIffNoError ==
    \A n \in JustValidated :
        LET f == fields[n]
        IN  /\ (returned[n] = <<TRUE>>) <=> (f._error = {})
            /\ f._error # {} => cleaned(f) = None
            /\ f._error = {} =>
                ((cleaned(f) = None) <=> (IsDateField(f) /\ f._value.year = << >>))

\* a from/to date field with no year is valid and cleans to None
C1_Witness ==
    \E n \in JustValidated :
        /\ IsDateField(fields[n])
        /\ fields[n]._value.year = << >>
        /\ fields[n]._value.month # << >>
        /\ returned[n] = <<TRUE>>
        /\ fields[n]._error = {}
        /\ cleaned(fields[n]) = None

----------------------------------------------------------------------------
(* C2 *)

\* the from/to pairs the form cross-validates
DatePairs ==
    {p \in {<<"covering_date_from", "covering_date_to">>,
            <<"opening_date_from", "opening_date_to">>} : p[1] \in DOMAIN fields}

\* C2: when cross validation adds its error to a from-field that passed its
\* own validation, _cleaned keeps the date it held, the bound value is
\* unchanged, cleaned is None from then on, and the to-field is unchanged
\* with its date and no error.
C2_CrossErrorKeepsCleaned ==
    /\ [][\A p \in DatePairs :
            (pc = "fields_validated"
                /\ fields'[p[1]]._error # fields[p[1]]._error) =>
                    /\ fields[p[1]]._error = {}
                    /\ fields[p[1]]._cleaned.type = "date"
                    /\ fields'[p[1]]._error = CrossFieldError
                    /\ fields'[p[1]]._cleaned = fields[p[1]]._cleaned
                    /\ fields'[p[1]]._value = fields[p[1]]._value
                    /\ cleaned(fields'[p[1]]) = None
                    /\ fields'[p[2]] = fields[p[2]]
                    /\ fields'[p[2]]._error = {}
                    /\ cleaned(fields'[p[2]]) = fields[p[2]]._cleaned]_vars
    /\ [][\A p \in DatePairs :
            fields[p[1]]._error = CrossFieldError =>
                /\ fields'[p[1]] = fields[p[1]]
                /\ cleaned(fields'[p[1]]) = None
                /\ fields'[p[2]]._error = {}
                /\ cleaned(fields'[p[2]]) = cleaned(fields[p[2]])]_vars

\* covering and opening dates from 2000 to 1999: each from-field carries the
\* cross error and still holds 1 January 2000, each to-field still cleans to
\* 31 December 1999, and the form has the message of each pair
C2_Witness ==
    /\ pc = "done"
    /\ \A p \in DatePairs :
        /\ fields[p[1]]._error = CrossFieldError
        /\ fields[p[1]]._cleaned = Date(2000, 1, 1)
        /\ cleaned(fields[p[1]]) = None
        /\ cleaned(fields[p[2]]) = Date(1999, 12, 31)
    /\ non_field_errors =
        <<[text |-> "Record dates: 'from' date (01-01-2000) cannot be after 'to' date (31-12-1999)."],
          [text |-> "Record opening dates: 'from' date (01-01-2000) cannot be after 'to' date (31-12-1999)."]>>

----------------------------------------------------------------------------
(* C3 *)

\* C3: after form.is_valid() the from-field carries the cross error, and there
\* is exactly one form-level message, iff both fields cleaned to a date and
\* from is strictly later than to; otherwise the from-field has no error but
\* one of its own validation and there is no message; the to-field never
\* carries the cross error.
C3_DateRangeErrorIffFromLater ==
    (form = "CatalogueSearchNonTnaForm" /\ pc = "validated") =>
        LET from == fields[FROM]
            to == fields[TO]
            later == /\ from._cleaned.type = "date"
                     /\ to._cleaned.type = "date"
                     /\ Ordinal(from._cleaned) > Ordinal(to._cleaned)
        IN  /\ (from._error = CrossFieldError) <=> later
            /\ Len(non_field_errors) = (IF later THEN 1 ELSE 0)
            /\ ~later => (from._error = {} \/ from._cleaned = None)
            /\ to._error # CrossFieldError
            /\ to._error # {} => to._cleaned = None

\* from and to clean to the same day: no error, no message
C3_Witness ==
    /\ form = "CatalogueSearchNonTnaForm"
    /\ pc = "validated"
    /\ fields[FROM]._cleaned = Date(2000, 2, 1)
    /\ fields[TO]._cleaned = Date(2000, 2, 1)
    /\ fields[FROM]._error = {}
    /\ non_field_errors = << >>

----------------------------------------------------------------------------
(* C4 *)

\* C4: the API is called only after every field was validated and cross
\* validation found the form valid; an explicit update_choices happens only
\* once the API returned a result; an invalid form leads to no API call and
\* no explicit update_choices.
C4_ValidateBeforeApiBeforeReconcile ==
    /\ pc = "bound" => (\A n \in DOMAIN fields : returned[n] = << >>)
    /\ api.state # "idle" =>
            /\ pc \notin {"bound", "fields_validated", "validated"}
            /\ \A n \in DOMAIN fields : returned[n] # << >>
            /\ errors(fields) = {}
            /\ non_field_errors = << >>
    /\ (\E n \in DOMAIN fields : ExplicitUpdate(n)) =>
            /\ api.state = "returned"
            /\ pc \in {"render", "page_not_found", "done"}
    /\ (pc \in {"validated", "render", "page_not_found", "done"}
            /\ (errors(fields) # {} \/ non_field_errors # << >>)) =>
            /\ api.state = "idle"
            /\ \A n \in DOMAIN fields : ~ExplicitUpdate(n)

\* a request that went through the API call and the explicit reconciliation
C4_Witness ==
    /\ pc = "done"
    /\ api.state = "returned"
    /\ ExplicitUpdate("level")
    /\ form = "CatalogueSearchTnaForm"
    /\ fields["level"]._value = <<"Department", "Division">>

----------------------------------------------------------------------------
(* C5 *)

\* C5: after update_choices(api, selected) the choices are one pair per API
\* entry in API order, labelled "<display> (<grouped count>)", then one pair
\* per selected value that is not an API value, in selected order, labelled
\* "<display> (0)"; choices_updated is true.
C5_UpdateChoicesResult ==
    \A n \in DynamicFields :
        uc_last[n] # << >> =>
            LET f == fields[n]
                a == uc_last[n][1].api
                s == uc_last[n][1].selected
                ch == f.choices
                apivals == {a[i].value : i \in DOMAIN a}
                miss == {k \in DOMAIN s : s[k] \notin apivals}
                kth(j) == CHOOSE k \in miss : Cardinality({i \in miss : i <= k}) = j
            IN  /\ f.choices_updated
                /\ Len(ch) = Len(a) + Cardinality(miss)
                /\ \A i \in DOMAIN a :
                    ch[i] = <<a[i].value,
                              ConfiguredLabelOrValue(f, a[i].value) \o " ("
                                \o GROUPED[a[i].doc_count] \o ")">>
                /\ \A j \in 1..Cardinality(miss) :
                    ch[Len(a) + j] = <<s[kth(j)],
                                       ConfiguredLabelOrValue(f, s[kth(j)]) \o " (0)">>

\* update_choices([york, london], [manchester, london]) on the london/leeds field
C5_Witness ==
    /\ form = "MyTestForm"
    /\ ExplicitUpdate("field")
    /\ uc_last["field"][1].selected = <<"manchester", "london">>
    /\ fields["field"].choices = << <<"york", "york (1,005,000)">>,
                                    <<"london", "London (10)">>,
                                    <<"manchester", "manchester (0)">> >>

----------------------------------------------------------------------------
(* C6 *)

\* C6: in a request, the items rendered for a dynamic field without error
\* contain a checked entry for every bound value.
C6_SelectedAlwaysChecked ==
    \A n \in DynamicFields :
        (rendered[n] # << >> /\ fields[n]._error = {}) =>
            \A k \in DOMAIN fields[n]._value :
                \E i \in DOMAIN rendered[n][1] :
                    /\ rendered[n][1][i].value = fields[n]._value[k]
                    /\ "checked" \in DOMAIN rendered[n][1][i]
                    /\ rendered[n][1][i].checked

\* the form was invalid, the API was never queried, and the selected unknown
\* collection is rendered checked with count 0
C6_Witness ==
    /\ pc = "done"
    /\ api.state = "idle"
    /\ form = "CatalogueSearchTnaForm"
    /\ fields["collection"]._value = <<"DOESNOTEXIST", "BT">>
    /\ rendered["collection"] =
        << << [text |-> "DOESNOTEXIST (0)", value |-> "DOESNOTEXIST", checked |-> TRUE],
              [text |-> "BT - Board of Trade and successors (0)", value |-> "BT",
               checked |-> TRUE] >> >>

----------------------------------------------------------------------------
(* C7 *)

\* C7 as stated: whenever items is read on a dynamic field that has an error,
\* the list is empty, whatever was configured and whatever update_choices
\* calls came before.
C7_ErrorShowsNoChoices ==
    \A n \in DynamicFields :
        (rendered[n] # << >> /\ fields[n]._error # {}) => rendered[n][1] = << >>

----------------------------------------------------------------------------
(* C8 *)

\* C8: reading items of a dynamic field with no error and choices_updated
\* false calls update_choices([], value): afterwards choices_updated is true
\* and the list is one checked entry per bound value, in bound order,
\* labelled "<configured label or value> (0)".
C8_LazyReconciliation ==
    [][\A n \in DynamicFields :
        (fields[n]._error = {} /\ ~fields[n].choices_updated /\ rendered'[n] # << >>) =>
            /\ fields'[n].choices_updated
            /\ LazyUpdate(n)'
            /\ uc_last'[n][1].api = << >>
            /\ uc_last'[n][1].selected = fields[n]._value
            /\ rendered'[n][1] =
                [i \in DOMAIN fields[n]._value |->
                    [text |-> ConfiguredLabelOrValue(fields[n], fields[n]._value[i]) \o " (0)",
                     value |-> fields[n]._value[i],
                     checked |-> TRUE]]]_vars

\* london and manchester bound to the london/leeds field, items read first
C8_Witness ==
    /\ form = "MyTestForm"
    /\ IsDynamic(fields["field"])
    /\ LazyUpdate("field")
    /\ fields["field"].configured_choices = LOCATION_CHOICES
    /\ fields["field"]._error = {}
    /\ rendered["field"] =
        << << [text |-> "London (0)", value |-> "london", checked |-> TRUE],
              [text |-> "manchester (0)", value |-> "manchester", checked |-> TRUE] >> >>

----------------------------------------------------------------------------
(* C9 *)

\* C9: update_choices replaces the list: after a call every entry comes from
\* the API entries or the selected values of that call, and a call with the
\* arguments of the previous call leaves the list as it was.
C9_ReplacesAndIdempotent ==
    /\ [](\A n \in DynamicFields :
            uc_last[n] # << >> =>
                /\ \A i \in DOMAIN fields[n].choices :
                    \/ \E j \in DOMAIN uc_last[n][1].api :
                            uc_last[n][1].api[j].value = fields[n].choices[i][1]
                    \/ \E j \in DOMAIN uc_last[n][1].selected :
                            uc_last[n][1].selected[j] = fields[n].choices[i][1]
                /\ Len(fields[n].choices) <=
                        Len(uc_last[n][1].api) + Len(uc_last[n][1].selected))
    /\ [][\A n \in DynamicFields :
            (uc_last[n] # << >> /\ uc_last'[n] # << >> /\ uc_last'[n][1].repeat) =>
                fields'[n].choices = fields[n].choices]_vars

\* the same explicit call was made twice in a row
C9_Witness ==
    /\ form = "MyTestForm"
    /\ ExplicitUpdate("field")
    /\ uc_last["field"][1].repeat
    /\ uc_last["field"][1].api = <<[value |-> "london", doc_count |-> 10]>>
    /\ uc_last["field"][1].selected = <<"manchester">>
    /\ fields["field"].choices = << <<"london", "london (10)">>,
                                    <<"manchester", "manchester (0)">> >>

----------------------------------------------------------------------------
(* C10 *)

\* C10: is_valid() of a dynamic field fails with "Value is required." iff the
\* field is required and nothing is bound; otherwise it fails with the
\* invalid-choice error iff validate_input is set and a bound value is not a
\* valid choice; otherwise it is valid and cleaned is the bound list.
C10_DynamicFieldOutcome ==
    \A n \in DynamicFields \cap fresh :
        LET f == fields[n]
            unknown == {i \in DOMAIN f._value : f._value[i] \notin Range(f.valid_choices)}
        IN  IF f.required /\ f._value = << >>
            THEN f._error = {[text |-> "Value is required."]} /\ returned[n] = <<FALSE>>
            ELSE IF f.validate_input /\ unknown # {}
            THEN /\ f._error # {}
                 /\ f._error # {[text |-> "Value is required."]}
                 /\ returned[n] = <<FALSE>>
            ELSE /\ f._error = {}
                 /\ returned[n] = <<TRUE>>
                 /\ cleaned(f) = List(f._value)

\* validate_input without required: nothing bound is valid and cleans to []
C10_Witness ==
    \E n \in DynamicFields \cap fresh :
        /\ fields[n].validate_input
        /\ ~fields[n].required
        /\ fields[n]._value = << >>
        /\ returned[n] = <<TRUE>>
        /\ cleaned(fields[n]) = List(<< >>)

----------------------------------------------------------------------------
(* C11 *)

\* C11: a dynamic field constructed with non-empty choices has validate_input
\* true unless the caller passed validate_input=False; with empty choices it
\* has validate_input false whatever was passed; valid_choices is the list of
\* configured values when validate_input is true and empty otherwise; and with
\* validate_input false is_valid() rejects no bound value (only an empty list
\* of a required field).
C11_ValidateInputAtConstruction ==
    \A n \in DynamicFields :
        LET f == fields[n]
        IN  /\ f.configured_choices # << >> =>
                    (f.validate_input <=> f.validate_input_kw # <<FALSE>>)
            /\ f.configured_choices = << >> => ~f.validate_input
            /\ f.valid_choices =
                    (IF f.validate_input
                     THEN [i \in DOMAIN f.configured_choices |-> f.configured_choices[i][1]]
                     ELSE << >>)
            /\ (n \in fresh /\ ~f.validate_input) =>
                    \/ f._error = {} /\ returned[n] = <<TRUE>>
                    \/ f.required /\ f._value = << >>

\* no choices configured, validate_input=True passed: the field validates
\* nothing and accepts london and manchester
C11_Witness ==
    \E n \in DynamicFields \cap fresh :
        /\ fields[n].configured_choices = << >>
        /\ fields[n].validate_input_kw = <<TRUE>>
        /\ ~fields[n].validate_input
        /\ fields[n].valid_choices = << >>
        /\ fields[n]._value = <<"london", "manchester">>
        /\ fields[n]._error = {}
        /\ returned[n] = <<TRUE>>

----------------------------------------------------------------------------
(* C12 *)

\* single-choice fields whose is_valid() just returned
ValidatedChoiceFields == {n \in fresh : fields[n].kind = "ChoiceField"}

\* the configured values of f, joined by ", " as the error message shows them
ValidChoicesShown(f) ==
    CASE f.choices = SORT_CHOICES -> ", date:desc, date:asc, title:asc, title:desc"
      [] f.choices = GROUP_CHOICES -> "tna, nonTna"

\* the invalid-choice error of a ChoiceField bound to v
InvalidSingleChoice(f, v) ==
    {[text |-> "Enter a valid choice. [" \o (IF v = "" THEN "Empty param value" ELSE v)
                \o "] is not one of the available choices. Valid choices are ["
                \o ValidChoicesShown(f) \o "]"]}

IsConfigured(f, v) == \E i \in DOMAIN f.choices : f.choices[i][1] = v

\* C12 as stated: a ChoiceField bound to a value that is not configured,
\* required or not, the empty string included, has the invalid-choice error.
C12_AsStated ==
    \A n \in ValidatedChoiceFields :
        ~IsConfigured(fields[n], fields[n]._value) =>
            fields[n]._error = InvalidSingleChoice(fields[n], fields[n]._value)

\* C12 (amended): a ChoiceField bound to a value that is not configured is
\* never valid; its error is "Value is required." when the field is required
\* and the value is the empty string, and the invalid-choice error otherwise.
C12_UnconfiguredValueFails ==
    \A n \in ValidatedChoiceFields :
        LET f == fields[n]
        IN  ~IsConfigured(f, f._value) =>
                /\ returned[n] = <<FALSE>>
                /\ f._cleaned = None
                /\ f._error = (IF f.required /\ f._value = ""
                               THEN {[text |-> "Value is required."]}
                               ELSE InvalidSingleChoice(f, f._value))

\* a required group field with nothing submitted: the error is the required one
C12_Witness ==
    \E n \in ValidatedChoiceFields :
        /\ fields[n].required
        /\ fields[n].choices = GROUP_CHOICES
        /\ fields[n]._value = ""
        /\ fields[n]._error = {[text |-> "Value is required."]}

----------------------------------------------------------------------------
(* C13 *)

\* the items of a ChoiceField list the configured choices in order, with
\* checked: true on the entries of the bound value and no checked key elsewhere
ItemsMarkBoundValue(n) ==
    LET f == fields[n]
        its == rendered[n][1]
    IN  /\ Len(its) = Len(f.choices)
        /\ \A i \in DOMAIN its :
            /\ its[i].value = f.choices[i][1]
            /\ its[i].text = f.choices[i][2]
            /\ ("checked" \in DOMAIN its[i]) <=> (f.choices[i][1] = f._value)
            /\ "checked" \in DOMAIN its[i] => its[i].checked
        /\ IsConfigured(f, f._value) =>
                Cardinality({i \in DOMAIN its : "checked" \in DOMAIN its[i]}) = 1

\* C13 as stated: a ChoiceField bound to a configured value is valid with
\* cleaned equal to that value, and its items mark exactly that entry.
C13_AsStated ==
    \A n \in ValidatedChoiceFields :
        IsConfigured(fields[n], fields[n]._value) =>
            /\ returned[n] = <<TRUE>>
            /\ fields[n]._error = {}
            /\ cleaned(fields[n]) = Str(fields[n]._value)
            /\ rendered[n] # << >> => ItemsMarkBoundValue(n)

\* C13 (amended): a ChoiceField bound to a configured value is valid with
\* cleaned equal to that value, unless it is required and the value is the
\* empty string, when it fails with "Value is required."; its items list
\* every configured choice in order and mark exactly the entry of the bound
\* value.
C13_ConfiguredValueRoundTrips ==
    \A n \in ValidatedChoiceFields :
        LET f == fields[n]
        IN  IsConfigured(f, f._value) =>
                /\ IF f.required /\ f._value = ""
                   THEN /\ returned[n] = <<FALSE>>
                        /\ f._error = {[text |-> "Value is required."]}
                        /\ cleaned(f) = None
                   ELSE /\ returned[n] = <<TRUE>>
                        /\ f._error = {}
                        /\ cleaned(f) = Str(f._value)
                /\ rendered[n] # << >> => ItemsMarkBoundValue(n)

\* sort bound to date:desc: valid, and of the five entries only the second
\* is checked
C13_Witness ==
    \E n \in ValidatedChoiceFields :
        /\ fields[n].choices = SORT_CHOICES
        /\ fields[n]._value = "date:desc"
        /\ returned[n] = <<TRUE>>
        /\ cleaned(fields[n]) = Str("date:desc")
        /\ rendered[n] # << >>
        /\ Len(rendered[n][1]) = 5
        /\ {i \in DOMAIN rendered[n][1] : "checked" \in DOMAIN rendered[n][1][i]} = {2}
        /\ rendered[n][1][2] =
            [text |-> "Date (newest first)", value |-> "date:desc", checked |-> TRUE]
        /\ rendered[n][1][3] = [text |-> "Date (oldest first)", value |-> "date:asc"]

----------------------------------------------------------------------------
(* Vocabulary of the date properties *)

\* the submitted parts that int() rejects
NOT_INTEGERS == {<<"a", "b", "c">>, <<"A", "B", "C">>, <<"x">>, <<" ">>,
                 <<"", "1">>}

\* the number a submitted part stands for
NumberOf(part) ==
    CASE part = <<"0">> -> 0
      [] part = <<"1">> -> 1
      [] part = <<"\t", "1", "">> -> 1
      [] part = <<"2">> -> 2
      [] part = <<"4">> -> 4
      [] part = <<"1", "2">> -> 12
      [] part = <<"1", "3">> -> 13
      [] part = <<"2", "9">> -> 29
      [] part = <<"3", "0">> -> 30
      [] part = <<"3", "1">> -> 31
      [] part = <<"3", "2">> -> 32
      [] part = <<"1", "9", "0", "0">> -> 1900
      [] part = <<"1", "9", "9", "9">> -> 1999
      [] part = <<"2", "0", "0", "0">> -> 2000
      [] part = <<"2", "0", "2", "3">> -> 2023
      [] part = <<"2", "_", "0", "2", "3">> -> 2023
      [] part = <<"2", "0", "2", "4">> -> 2024
      [] part = <<"1", "0", "0", "0", "0">> -> 10000

\* part is filled with an integer between lo and hi
FilledWithin(part, lo, hi) ==
    /\ part # << >>
    /\ part \notin NOT_INTEGERS
    /\ lo <= NumberOf(part) /\ NumberOf(part) <= hi

EmptyOrWithin(part, lo, hi) == part = << >> \/ FilledWithin(part, lo, hi)

\* the number of days of month m of year y in the Gregorian calendar
LastDayOf(y, m) ==
    CASE m \in {1, 3, 5, 7, 8, 10, 12} -> 31
      [] m \in {4, 6, 9, 11} -> 30
      [] m = 2 -> IF y % 400 = 0 \/ (y % 4 = 0 /\ y % 100 # 0) THEN 29 ELSE 28

\* date fields whose is_valid() just returned and on which the form's
\* cross-validation has put no error
ValidatedDateFields ==
    {n \in fresh : IsDateField(fields[n]) /\ fields[n]._error # CrossFieldError}

RealDateError ==
    {[text |-> "Entered date must be a real date, for example Year 2017, Month 9, Day 23"]}
IncompleteDateError ==
    {[text |-> "Either all or none of the date parts (day, month, year) must be provided."]}

----------------------------------------------------------------------------
(* C14 *)

\* C14: a progressive to-date field with a valid year and valid other parts
\* cleans to the last day of the month when the month is given without a day,
\* to 31 December when the month is missing, whatever the day, and to the
\* date itself when all three parts are given.
C14_ToDateCompletion ==
    \A n \in ValidatedDateFields :
        LET f == fields[n]
            v == f._value
        IN  (/\ f.kind = "ToDateField" /\ f.progressive
             /\ FilledWithin(v.year, 1, 9999)
             /\ EmptyOrWithin(v.month, 1, 12)
             /\ EmptyOrWithin(v.day, 1, 31)) =>
                IF v.month = << >>
                THEN f._error = {} /\ cleaned(f) = Date(NumberOf(v.year), 12, 31)
                ELSE IF v.day = << >>
                THEN /\ f._error = {}
                     /\ cleaned(f) = Date(NumberOf(v.year), NumberOf(v.month),
                                          LastDayOf(NumberOf(v.year), NumberOf(v.month)))
                ELSE f._error = {} =>
                        cleaned(f) = Date(NumberOf(v.year), NumberOf(v.month),
                                          NumberOf(v.day))

\* February 1900 without a day: 1900 is no leap year
C14_Witness ==
    \E n \in ValidatedDateFields :
        /\ fields[n].kind = "ToDateField"
        /\ fields[n]._value = [year |-> <<"1", "9", "0", "0">>, month |-> <<"2">>,
                               day |-> << >>]
        /\ cleaned(fields[n]) = Date(1900, 2, 28)

----------------------------------------------------------------------------
(* C15 *)

\* C15: a progressive from-date field with a valid year and valid other parts
\* cleans to date(year, month or 1, day or 1).
C15_FromDateCompletion ==
    \A n \in ValidatedDateFields :
        LET f == fields[n]
            v == f._value
            month == IF v.month = << >> THEN 1 ELSE NumberOf(v.month)
            day == IF v.day = << >> THEN 1 ELSE NumberOf(v.day)
        IN  (/\ f.kind = "FromDateField" /\ f.progressive
             /\ FilledWithin(v.year, 1, 9999)
             /\ EmptyOrWithin(v.month, 1, 12)
             /\ EmptyOrWithin(v.day, 1, 31)) =>
                /\ (v.month = << >> \/ v.day = << >>) => f._error = {}
                /\ f._error = {} => cleaned(f) = Date(NumberOf(v.year), month, day)

\* year 2023 alone cleans to 1 January 2023
C15_Witness ==
    \E n \in ValidatedDateFields :
        /\ fields[n].kind = "FromDateField"
        /\ fields[n]._value = [year |-> <<"2", "0", "2", "3">>, month |-> << >>,
                               day |-> << >>]
        /\ cleaned(fields[n]) = Date(2023, 1, 1)

----------------------------------------------------------------------------
(* C16 *)

\* some part is filled and some part is empty
Incomplete(v) ==
    /\ v.year # << >> \/ v.month # << >> \/ v.day # << >>
    /\ v.year = << >> \/ v.month = << >> \/ v.day = << >>

\* C16 as stated: a non-progressive date field, required or not, has the
\* all-or-none error iff its input is neither empty nor complete.
C16_AsStated ==
    \A n \in ValidatedDateFields :
        ~fields[n].progressive =>
            (fields[n]._error = IncompleteDateError <=> Incomplete(fields[n]._value))

\* C16 (amended): a non-progressive date field with input that is neither
\* empty nor complete fails with the all-or-none error when it is not
\* required and with "All date parts (day, month, year) are required." when it
\* is; empty and complete inputs never give the all-or-none error.
C16_IncompleteNonProgressive ==
    \A n \in ValidatedDateFields :
        LET f == fields[n]
        IN  ~f.progressive =>
                IF Incomplete(f._value)
                THEN /\ returned[n] = <<FALSE>>
                     /\ f._error =
                            (IF f.required
                             THEN {[text |-> "All date parts (day, month, year) are required."]}
                             ELSE IncompleteDateError)
                ELSE f._error # IncompleteDateError

\* only the year filled, not required: the all-or-none error
C16_Witness ==
    \E n \in ValidatedDateFields :
        /\ ~fields[n].progressive
        /\ ~fields[n].required
        /\ fields[n]._value = [year |-> <<"2", "0", "2", "3">>, month |-> << >>,
                               day |-> << >>]
        /\ fields[n]._error = IncompleteDateError

----------------------------------------------------------------------------
(* C17 *)

\* the error of one part: none ("") for an empty part
PartError(part, name, lo, hi, range) ==
    IF part = << >> THEN ""
    ELSE IF part \in NOT_INTEGERS THEN name \o " must be an integer."
    ELSE IF ~(lo <= NumberOf(part) /\ NumberOf(part) <= hi)
    THEN name \o " must be between " \o range \o "."
    ELSE ""

YearError(v) == PartError(v.year, "Year", 1, 9999, "1 and 9999")
MonthError(v) == PartError(v.month, "Month", 1, 12, "1 and 12")
DayError(v) == PartError(v.day, "Day", 1, 31, "1 and 31")

\* the error of the first failing part in the order year, month, day
FirstPartError(v) ==
    IF YearError(v) # "" THEN YearError(v)
    ELSE IF MonthError(v) # "" THEN MonthError(v)
    ELSE DayError(v)

PART_ERRORS ==
    {n \o m : n \in {"Year", "Month", "Day"},
              m \in {" must be an integer.", " must be between 1 and 9999.",
                     " must be between 1 and 12.", " must be between 1 and 31."}}

\* the required check and the all-or-none check let the input through
ReachesPartChecks(f) ==
    /\ f.required => (IF f.progressive THEN f._value.year # << >>
                      ELSE /\ f._value.year # << >> /\ f._value.month # << >>
                           /\ f._value.day # << >>)
    /\ ~f.progressive => ~Incomplete(f._value)

\* C17: when the part checks are reached, the field's error is that of the
\* first failing part in the order year, month, day; empty parts are not
\* checked, and when no part fails the error is none of the part errors.
C17_FirstFailingPart ==
    \A n \in ValidatedDateFields :
        LET f == fields[n]
        IN  ReachesPartChecks(f) =>
                IF FirstPartError(f._value) # ""
                THEN f._error = {[text |-> FirstPartError(f._value)]}
                ELSE \A e \in f._error : e.text \notin PART_ERRORS

\* year abc and month 13: only the year is reported
C17_Witness ==
    \E n \in ValidatedDateFields :
        /\ fields[n]._value.year = <<"a", "b", "c">>
        /\ fields[n]._value.month = <<"1", "3">>
        /\ fields[n]._value.day = <<"3", "2">>
        /\ fields[n]._error = {[text |-> "Year must be an integer."]}

----------------------------------------------------------------------------
(* C18 *)

\* C18: with all three parts filled and within their ranges the field is valid
\* iff the day is not beyond the length of the month; when valid cleaned is
\* that date, otherwise the error is the real-date error and cleaned is None.
C18_RealDate ==
    \A n \in ValidatedDateFields :
        LET f == fields[n]
            v == f._value
        IN  (/\ FilledWithin(v.year, 1, 9999)
             /\ FilledWithin(v.month, 1, 12)
             /\ FilledWithin(v.day, 1, 31)) =>
                IF NumberOf(v.day) <= LastDayOf(NumberOf(v.year), NumberOf(v.month))
                THEN /\ returned[n] = <<TRUE>>
                     /\ f._error = {}
                     /\ cleaned(f) = Date(NumberOf(v.year), NumberOf(v.month),
                                          NumberOf(v.day))
                ELSE /\ returned[n] = <<FALSE>>
                     /\ f._error = RealDateError
                     /\ cleaned(f) = None

\* 29 February 2024 is a date
C18_Witness ==
    \E n \in ValidatedDateFields :
        /\ fields[n]._value = [year |-> <<"2", "0", "2", "4">>, month |-> <<"2">>,
                               day |-> <<"2", "9">>]
        /\ cleaned(fields[n]) = Date(2024, 2, 29)

----------------------------------------------------------------------------
(* C19 *)

\* is_valid() is called on field n, on which it has returned before, and returns
RepeatedIsValid(n) ==
    /\ returned[n] # << >>
    /\ uc_last' = uc_last
    /\ pc' # "error"
    /\ FieldIsValid(n)

\* the call leaves error, cleaned and _cleaned of field n as they were
LeavesFieldState(n) ==
    /\ fields'[n]._error = fields[n]._error
    /\ cleaned(fields'[n]) = cleaned(fields[n])
    /\ fields'[n]._cleaned = fields[n]._cleaned

\* C19 as stated: a repeated is_valid() returns the same boolean as the call
\* before it and leaves error, cleaned and _cleaned identical, also after
\* cross-validation has added an error to the field.
C19_AsStated ==
    [][\A n \in DOMAIN fields :
        RepeatedIsValid(n) => (returned'[n] = returned[n] /\ LeavesFieldState(n))]_vars

\* C19 (amended): a repeated is_valid() leaves error, cleaned and _cleaned
\* identical and returns whether the error is empty: the same boolean as
\* before unless an error has been added to the field since, in which case it
\* returns False.
C19_RepeatedIsValid ==
    [][\A n \in DOMAIN fields :
        RepeatedIsValid(n) =>
            /\ LeavesFieldState(n)
            /\ returned'[n] = <<fields[n]._error = {}>>
            /\ fields[n]._error # CrossFieldError => returned'[n] = returned[n]]_vars

\* is_valid() has returned again on the from-date field after the form's
\* cross-validation added its error: False, with the cleaned date retained
C19_Witness ==
    /\ form = "CatalogueSearchNonTnaForm"
    /\ FROM \in fresh
    /\ fields[FROM]._error = CrossFieldError
    /\ fields[FROM]._cleaned.type = "date"
    /\ returned[FROM] = <<FALSE>>

----------------------------------------------------------------------------
(* C20 *)

\* the view has processed the API result
ApiResultProcessed ==
    api.state = "returned" /\ pc \in {"render", "page_not_found", "done"}

\* the aggregations of the API result that belong to field n
AggregationsOf(n) ==
    {i \in DOMAIN api.result : camelcase_to_underscore(api.result[i].name) = n}

\* C20 as stated: once the view has processed an API result, every dynamic
\* field whose aggregation is in the result has more_filter_choices_available
\* true iff that aggregation's "other" count is non-zero.
C20_MoreChoicesFollowOther ==
    ApiResultProcessed =>
        \A n \in DynamicFields :
            \A i \in AggregationsOf(n) :
                fields[n].more_filter_choices_available = (api.result[i].other # 0)

----------------------------------------------------------------------------
(* C21 *)

\* the completion of a partial date is a date of the calendar
CompletedToRealDate(f) ==
    /\ f._error = {}
    /\ cleaned(f).type = "date"
    /\ 1 <= cleaned(f).month /\ cleaned(f).month <= 12
    /\ 1 <= cleaned(f).day
    /\ cleaned(f).day <= LastDayOf(cleaned(f).year, cleaned(f).month)

\* C21: is_valid() never lets an exception escape: it returns a boolean, False
\* exactly when the field has an error, and the progressive completion of a
\* partial date that passed validation is always a real date.
C21_NoExceptionEscapes ==
    /\ pc # "error"
    /\ \A n \in fresh :
        /\ returned[n] \in {<<TRUE>>, <<FALSE>>}
        /\ returned[n] = <<FALSE>> <=> fields[n]._error # {}
    /\ \A n \in ValidatedDateFields :
        LET v == fields[n]._value
        IN  (/\ fields[n].kind \in {"FromDateField", "ToDateField"}
             /\ fields[n].progressive
             /\ FilledWithin(v.year, 1, 9999)
             /\ EmptyOrWithin(v.month, 1, 12)
             /\ EmptyOrWithin(v.day, 1, 31)
             /\ v.month = << >> \/ v.day = << >>) => CompletedToRealDate(fields[n])

\* a from-date with day 31 and no month completes to 31 January
C21_Witness ==
    \E n \in ValidatedDateFields :
        /\ fields[n].kind = "FromDateField"
        /\ fields[n]._value = [year |-> <<"2", "0", "2", "3">>, month |-> << >>,
                               day |-> <<"3", "1">>]
        /\ returned[n] = <<TRUE>>
        /\ cleaned(fields[n]) = Date(2023, 1, 31)

----------------------------------------------------------------------------
(* C22 *)

\* items is read on dynamic field n, which has no error and whose last
\* update_choices call was made by a caller
ItemsAfterExplicitUpdate(n) ==
    /\ rendered'[n] # << >>
    /\ fields[n]._error = {}
    /\ ExplicitUpdate(n)
    /\ AccessItems(n)

\* C22: reading items of a dynamic field without error after an explicit
\* update_choices does not reconcile again: choices and choices_updated stay,
\* no update_choices call is made, every API entry of the explicit call is
\* still listed, and a repeated read returns the same list.
C22_NoSecondReconciliation ==
    [][\A n \in DynamicFields :
        ItemsAfterExplicitUpdate(n) =>
            /\ fields'[n].choices = fields[n].choices
            /\ fields'[n].choices_updated /\ fields[n].choices_updated
            /\ uc_last'[n] = uc_last[n]
            /\ \A j \in DOMAIN uc_last[n][1].api :
                \E i \in DOMAIN rendered'[n][1] :
                    rendered'[n][1][i].value = uc_last[n][1].api[j].value
            /\ rendered[n] # << >> => rendered'[n] = rendered[n]]_vars

\* items read after an explicit update_choices with york among the API
\* entries and london bound: york, which is not selected, is listed unchecked
C22_Witness ==
    \E n \in DynamicFields :
        /\ ExplicitUpdate(n)
        /\ fields[n]._error = {}
        /\ fields[n]._value = <<"london">>
        /\ rendered[n] # << >>
        /\ \E i \in DOMAIN rendered[n][1] :
            /\ rendered[n][1][i].value = "york"
            /\ "checked" \notin DOMAIN rendered[n][1][i]

----------------------------------------------------------------------------
(* C23 *)

\* the counts a label can carry
COUNTS_SHOWN == {"0"} \cup {GROUPED[c] : c \in DOMAIN GROUPED}

\* every label of the reconciled list is the configured label, or the value
\* where none is configured, followed by one count
LabelsFromConfigured(f) ==
    \A i \in DOMAIN f.choices :
        \E c \in COUNTS_SHOWN :
            f.choices[i][2] = ConfiguredLabelOrValue(f, f.choices[i][1])
                                \o " (" \o c \o ")"

\* the field as it was before any reconciliation
BeforeReconciliation(f) ==
    [f EXCEPT !.choices = f.configured_choices, !.choices_updated = FALSE]

\* C23: no step changes configured_choices (from which configured_choice_labels
\* is read), valid_choices or validate_input of a dynamic field; in every
\* state cleaning the bound value gives what it gave before any
\* reconciliation, and every label of a reconciled list is built from the
\* configured label.
C23_ConfigurationIsFixed ==
    /\ [](\A n \in DynamicFields :
            /\ clean(fields[n]) = clean(BeforeReconciliation(fields[n]))
            /\ uc_last[n] # << >> => LabelsFromConfigured(fields[n]))
    /\ [][\A n \in DOMAIN fields :
            IsDynamic(fields[n]) =>
                /\ fields'[n].configured_choices = fields[n].configured_choices
                /\ fields'[n].valid_choices = fields[n].valid_choices
                /\ fields'[n].validate_input = fields[n].validate_input]_vars

\* update_choices called a second time with the same arguments on the
\* london/leeds field: the label of london carries one count
C23_Witness ==
    \E n \in DynamicFields :
        /\ uc_last[n] # << >>
        /\ uc_last[n][1].repeat
        /\ fields[n].configured_choices = LOCATION_CHOICES
        /\ fields[n].valid_choices = <<"london", "leeds">>
        /\ \E i \in DOMAIN fields[n].choices :
            fields[n].choices[i] = <<"london", "London (10)">>

----------------------------------------------------------------------------
(* C24 *)

\* the strings of seq separated by ", "
RECURSIVE CommaSeparated(_)
CommaSeparated(seq) ==
    IF Len(seq) = 0 THEN ""
    ELSE IF Len(seq) = 1 THEN seq[1]
    ELSE CommaSeparated(SubSeq(seq, 1, Len(seq) - 1)) \o ", " \o seq[Len(seq)]

\* the bound values of f that are not valid choices, in bound order
Offending(f) == SelectSeq(f._value, LAMBDA x : \A i \in DOMAIN f.valid_choices :
                                                    f.valid_choices[i] # x)

\* the invalid-choices error naming the values named
InvalidMultipleChoice(f, named) ==
    {[text |-> "Enter a valid choice. Value(s) [" \o CommaSeparated(named)
                \o "] do not belong to the available choices. Valid choices are ["
                \o CommaSeparated(f.valid_choices) \o "]"]}

\* dynamic fields with validate_input whose is_valid() just failed the
\* membership check
FailedMembership ==
    {n \in DynamicFields \cap fresh :
        fields[n].validate_input /\ Offending(fields[n]) # << >>}

\* C24 as stated: the message of a failed membership check names exactly the
\* bound values that are not valid choices, and the valid set in configured
\* order.
C24_AsStated ==
    \A n \in FailedMembership :
        fields[n]._error = InvalidMultipleChoice(fields[n], Offending(fields[n]))

\* C24 (amended): the message of a failed membership check names all the
\* bound values in bound order, the valid ones among them included, and the
\* valid set in configured order.
C24_NamesAllBoundValues ==
    \A n \in FailedMembership :
        /\ returned[n] = <<FALSE>>
        /\ fields[n]._error = InvalidMultipleChoice(fields[n], fields[n]._value)

\* london and manchester bound to the london/leeds field: both are named
C24_Witness ==
    \E n \in FailedMembership :
        /\ fields[n]._value = <<"london", "manchester">>
        /\ fields[n]._error =
            {[text |-> "Enter a valid choice. Value(s) [london, manchester] do not belong to the available choices. Valid choices are [london, leeds]"]}

----------------------------------------------------------------------------
(* C25 *)

\* the date filters of the form without field n
DateFiltersWithout(n) ==
    _get_date_api_params(form, [m \in DOMAIN fields \ {n} |-> fields[m]])

\* C25: a progressive from-date or to-date field that is not required and is
\* bound with an empty year is valid and cleans to None, also when a month or
\* a day within its range was entered, and it adds no date filter.
C25_NoYearNoDate ==
    \A n \in ValidatedDateFields :
        LET f == fields[n]
        IN  (/\ f.kind \in {"FromDateField", "ToDateField"}
             /\ f.progressive /\ ~f.required
             /\ f._value.year = << >>
             /\ EmptyOrWithin(f._value.month, 1, 12)
             /\ EmptyOrWithin(f._value.day, 1, 31)) =>
                /\ returned[n] = <<TRUE>>
                /\ f._error = {}
                /\ cleaned(f) = None
                /\ _get_date_api_params(form, fields) = DateFiltersWithout(n)

\* the from-date of the pair bound with month 2 and day 1 but no year, next to
\* a to-date that does give a filter
C25_Witness ==
    /\ form = "CatalogueSearchNonTnaForm"
    /\ {FROM, TO} \subseteq ValidatedDateFields
    /\ fields[FROM]._value = [year |-> << >>, month |-> <<"2">>, day |-> <<"1">>]
    /\ cleaned(fields[FROM]) = None
    /\ cleaned(fields[TO]) = Date(1999, 12, 31)
    /\ _get_date_api_params(form, fields) = <<"coveringToDate:(<=1999-12-31)">>

----------------------------------------------------------------------------
(* C26 *)

\* the items of lazy reconciliation: one checked entry per bound value, with
\* count 0
SelectedWithCountZero(f) ==
    [i \in DOMAIN f._value |->
        [text |-> ConfiguredLabelOrValue(f, f._value[i]) \o " (0)",
         value |-> f._value[i],
         checked |-> TRUE]]

\* C26: when the form is valid and the search raises ResourceNotFound, the
\* view renders without a result: no field has an error and the form is
\* still valid, no explicit update_choices has run, and the items of every
\* dynamic field are its bound values with count 0.
C26_NotFoundRendersWithoutResult ==
    (api.state = "not_found" /\ pc \in {"render", "done"}) =>
        /\ api.result = << >>
        /\ non_field_errors = << >>
        /\ \A n \in DOMAIN fields : fields[n]._error = {} /\ returned[n] = <<TRUE>>
        /\ \A n \in DynamicFields : ~ExplicitUpdate(n)
        /\ pc = "done" =>
            \A n \in DynamicFields :
                /\ LazyUpdate(n)
                /\ rendered[n] = <<SelectedWithCountZero(fields[n])>>

\* Department selected, nothing found: the level checkboxes show
\* "Department (0)" alone, not the seven configured levels
C26_Witness ==
    /\ api.state = "not_found"
    /\ pc = "done"
    /\ form = "CatalogueSearchTnaForm"
    /\ fields["level"]._value = <<"Department">>
    /\ rendered["level"] =
        << <<[text |-> "Department (0)", value |-> "Department", checked |-> TRUE]>> >>
    /\ rendered["collection"] = << << >> >>

----------------------------------------------------------------------------
(* C27 *)

\* the filter the API is sent for a selected level
LevelFilter(v) == IF v = "Department" THEN "level:Lettercode" ELSE "level:" \o v

\* the API's response holds a level aggregation with an entry for Lettercode
LettercodeCounted ==
    \E i \in DOMAIN api.response :
        /\ api.response[i].name = "level"
        /\ \E j \in DOMAIN api.response[i].entries :
            api.response[i].entries[j] = [value |-> "Lettercode", doc_count |-> 100]

\* the positions of value v in a list of choices
PositionsOf(choices, v) == {i \in DOMAIN choices : choices[i][1] = v}

\* C27: a selected Department is sent to the API as level:Lettercode and
\* other levels as they are; an API entry for Lettercode is renamed
\* Department before reconciliation, so that a selected Department is one
\* checked entry carrying the Lettercode count; the bound and the cleaned
\* value of the field still read Department.
C27_DepartmentLettercode ==
    "level" \in DOMAIN fields =>
        LET f == fields["level"]
        IN  /\ \A i \in DOMAIN f._value : f._value[i] # "Lettercode"
            /\ api.state # "idle" =>
                /\ cleaned(f) = List(f._value)
                /\ \A i \in DOMAIN f._value : LevelFilter(f._value[i]) \in Range(api.params.filter)
                /\ "level:Department" \notin Range(api.params.filter)
            /\ (ApiResultProcessed /\ LettercodeCounted) =>
                /\ PositionsOf(f.choices, "Lettercode") = {}
                /\ Cardinality(PositionsOf(f.choices, "Department")) = 1
                /\ \A i \in PositionsOf(f.choices, "Department") :
                    f.choices[i] = <<"Department", "Department (100)">>
                /\ (pc = "done" /\ "Department" \in Range(f._value)) =>
                    \E i \in DOMAIN rendered["level"][1] :
                        rendered["level"][1][i] =
                            [text |-> "Department (100)", value |-> "Department",
                             checked |-> TRUE]

\* Department selected and Lettercode counted 100 by the API
C27_Witness ==
    /\ pc = "done"
    /\ LettercodeCounted
    /\ form = "CatalogueSearchTnaForm"
    /\ fields["level"]._value = <<"Department">>
    /\ "level:Lettercode" \in Range(api.params.filter)
    /\ rendered["level"] =
        << <<[text |-> "Department (100)", value |-> "Department", checked |-> TRUE]>> >>

----------------------------------------------------------------------------
(* C28 *)

\* the form has validated a from-date and a to-date bound to the same parts,
\* a valid year among them and every other part empty or within its range
SamePartsValidated ==
    /\ form = "CatalogueSearchNonTnaForm"
    /\ pc = "validated"
    /\ fields[FROM]._value = fields[TO]._value
    /\ FilledWithin(fields[FROM]._value.year, 1, 9999)
    /\ EmptyOrWithin(fields[FROM]._value.month, 1, 12)
    /\ EmptyOrWithin(fields[FROM]._value.day, 1, 31)

\* C28: for the same valid input (a year alone, a year and a month, or more)
\* the from-date completion is not later than the to-date completion, and the
\* date-range cross-validation of the form does not fail.
C28_SameInputNeverFailsRange ==
    SamePartsValidated =>
        /\ fields[FROM]._error = {} /\ fields[TO]._error = {}
        /\ non_field_errors = << >>
        /\ Ordinal(fields[FROM]._cleaned) <= Ordinal(fields[TO]._cleaned)
        /\ fields[FROM]._cleaned.year = fields[TO]._cleaned.year

\* February 2000 in both fields: 1 February to 29 February
C28_Witness ==
    /\ SamePartsValidated
    /\ fields[FROM]._value = [year |-> <<"2", "0", "0", "0">>, month |-> <<"2">>,
                              day |-> << >>]
    /\ fields[FROM]._cleaned = Date(2000, 2, 1)
    /\ fields[TO]._cleaned = Date(2000, 2, 29)

----------------------------------------------------------------------------
(* C29 *)

\* C29 as stated: after update_choices with API entries of pairwise distinct
\* values no value occurs in two entries of choices, also when the selected
\* list repeats a value.
C29_NoValueTwice ==
    \A n \in DynamicFields :
        uc_last[n] # << >> =>
            \A i, j \in DOMAIN fields[n].choices :
                fields[n].choices[i][1] = fields[n].choices[j][1] => i = j

----------------------------------------------------------------------------
(* C30 *)

\* C30 as stated: when is_valid() of a required CharField returns True,
\* cleaned is a string that is not empty.
C30_RequiredCleansNonEmpty ==
    \A n \in fresh :
        (/\ fields[n].kind = "CharField"
         /\ fields[n].required
         /\ returned[n] = <<TRUE>>) =>
            /\ cleaned(fields[n]).type = "str"
            /\ cleaned(fields[n]) # Str(<< >>)

====
